---- MODULE Spec2Model ----
(***************************************************************************)
(* A model of the Raft node of startup-news-backend: server.py (Server)    *)
(* and consensus.py (RaftNode).                                            *)
(*                                                                         *)
(* Spec         : the cluster at handler granularity.  A timer callback    *)
(*                or a client RPC with all the RPCs it sends and the       *)
(*                handlers that answer them is one action; the peers its   *)
(*                calls reach are chosen freely.                           *)
(* SpecCrash    : Spec with crash-restarts of a node.                      *)
(* SpecElection : become_candidate of one node followed step by step       *)
(*                while the handlers of its process run.                   *)
(* SpecApply    : replicate_command and apply_committed_entries of one     *)
(*                handler thread followed step by step.                    *)
(* SpecApp      : Spec with the post and comment RPCs.                     *)
(* SpecBlog     : every client RPC on one node that is elected, restarts   *)
(*                and is elected again.                                    *)
(* SpecJoin     : Spec with replicas that join through RPCAddReplica.      *)
(* SpecAppend   : two RPCSubscribe handler threads of one leader, followed *)
(*                across the save_raft_state of replicate_command.         *)
(* SpecLog      : one call of append_entries_to_log on a node that loaded  *)
(*                a log.                                                   *)
(***************************************************************************)
EXTENDS Integers, Sequences, FiniteSets, TLC

\* ------------------------------------------------------------------ bounds
\* Spec: terms and log lengths explored
MaxTerm == 2
MaxLogLen == 2
\* SpecCrash: crash-restarts and terms explored
MaxRestarts == 1
MaxCrashTerm == 1

\* ------------------------------------------------------------- vocabulary
Nodes == {1, 2, 3}
NoVote == 0
Emails == {"a", "b"}

\* the nodes whose election timer runs out, and the nodes that crash, in the
\* behaviours explored
Timeouts == {1, 2}
Crashes == {3}
\* the nodes the clients call
Clients == {1}

VARIABLES
    currentTerm,    \* RaftNode.currentTerm, per node
    votedFor,       \* RaftNode.votedFor, per node (NoVote is None)
    log,            \* RaftNode.log, per node: sequence of entries
    commitIndex,    \* RaftNode.commitIndex
    lastApplied,    \* RaftNode.lastApplied
    role,           \* RaftNode.role
    nextIndex,      \* RaftNode.nextIndex, per node a function of the peers
    matchIndex,     \* RaftNode.matchIndex
    replicas,       \* Server.replicas_config, per node the set of replica ids
    disk,           \* the raft store file of each node
    db,             \* the application tables of each node
    store,          \* the CSV files of each node
    electionTimer,  \* Server.election_timer is armed
    heartbeatTimer, \* Server.heartbeat_timer is armed
    restarts,       \* number of crash-restarts so far
    voted,          \* history: per node the set of <<term, candidate>> it voted for
    trace,          \* history: per node the <<index, entry>> pairs its process has
                    \* passed to apply_blog_operation, in that order
    everApplied,    \* history: the <<index, entry>> pairs any node has applied
    unsaved,        \* history: per node the acknowledgements it sent while its raft
                    \* store did not hold its term, vote and log
    thread          \* the handler thread that is followed step by step, if any

nodeVars == <<currentTerm, votedFor, log, commitIndex, lastApplied, role,
              nextIndex, matchIndex, replicas, disk, db, store, electionTimer,
              heartbeatTimer, voted, trace, unsaved>>
vars == <<nodeVars, restarts, everApplied, thread>>

\* ---------------------------------------------------------------- helpers
Min(a, b) == IF a < b THEN a ELSE b

\* RaftLogEntry(term, operation, params)
RaftLogEntry(t, op, ps) == [term |-> t, operation |-> op, params |-> ps]

\* RaftNode.last_log_index / last_log_term, on a log
last_log_index(l) == Len(l)

last_log_term(l) == IF Len(l) = 0 THEN 0 ELSE l[Len(l)].term

\* the stubs of get_cluster_stubs: every configured replica but the node itself
Peers(n) == n.replicas \ {n.id}

\* (len(self.replicas_config)//2)+1
Majority(n) == (Cardinality(n.replicas) \div 2) + 1

Range(s) == {s[k] : k \in 1..Len(s)}

\* the dictionary save_raft_state writes
RaftState(t, v, l) == [currentTerm |-> t, votedFor |-> v, log |-> l]

\* ------------------------------------------------------ application tables
PostIds == {"p1"}
Texts == {"t"}

\* user_database, writers_database, posts_database after Server.__init__ on
\* empty stores.  posts maps a post id to a Post; writers maps an email to a name
\* (the bcrypt hash is left out).
EmptyDb == [users |-> {}, writers |-> <<>>, posts |-> <<>>]

\* Post(post_id, author, title, content, timestamp): likes and comments start empty
Post(author, title, content) ==
    [author |-> author, title |-> title, content |-> content,
     likes |-> <<>>, comments |-> <<>>]

\* Comment(post_id, email, text, timestamp), the timestamp left out
Comment(email, text) == [email |-> email, text |-> text]

InSeq(x, s) == \E k \in 1..Len(s) : s[k] = x

\* list.remove(x): the first occurrence
RemoveFirst(s, x) ==
    LET k == CHOOSE k \in 1..Len(s) : s[k] = x /\ \A m \in 1..(k - 1) : s[m] # x
    IN  SubSeq(s, 1, k - 1) \o SubSeq(s, k + 1, Len(s))

\* Post.like
like(p, username) ==
    IF InSeq(username, p.likes) THEN p ELSE [p EXCEPT !.likes = Append(@, username)]

\* Post.unlike
unlike(p, username) ==
    IF InSeq(username, p.likes) THEN [p EXCEPT !.likes = RemoveFirst(@, username)] ELSE p

\* dict[key] = value
Put(f, k, v) == [x \in DOMAIN f \cup {k} |-> IF x = k THEN v ELSE f[x]]

\* del dict[key]
Del(f, k) == [x \in DOMAIN f \ {k} |-> f[x]]

Done(d) == [ok |-> TRUE, db |-> d]
Raise(d) == [ok |-> FALSE, db |-> d]

\* Server.apply_blog_operation on the tables d: the tables afterwards, and ok = FALSE
\* when the call raises (KeyError, ValueError, IndexError).
apply_blog_operation(d, e) ==
    LET op == e.operation
        ps == e.params
        n == Len(e.params)
    IN
    CASE op = "SUBSCRIBE" ->
            IF n # 1 THEN Done(d)
            ELSE Done([d EXCEPT !.users = @ \cup {ps[1]}])
      [] op = "CREATE_ACCOUNT" ->
            IF n # 3 THEN Done(d)
            ELSE IF ps[2] \in DOMAIN d.writers THEN Done(d)
            ELSE Done([d EXCEPT !.writers = Put(@, ps[2], ps[1])])
      [] op = "COMMENT_POST" ->
            IF n # 3 THEN Done(d)
            ELSE IF ps[1] \notin DOMAIN d.posts THEN Raise(d)
            ELSE Done([d EXCEPT !.posts[ps[1]].comments = Append(@, Comment(ps[2], ps[3]))])
      [] op = "CREATE_POST" ->
            IF n < 5 THEN Done(d)
            ELSE IF n > 5 THEN Raise(d)
            ELSE Done([d EXCEPT !.posts = Put(@, ps[1], Post(ps[4], ps[2], ps[3]))])
      [] op = "LIKE_POST" ->
            IF n < 2 THEN Done(d)
            ELSE IF n > 2 THEN Raise(d)
            ELSE IF ps[1] \in DOMAIN d.posts /\ ps[2] \in d.users
                 THEN Done([d EXCEPT !.posts[ps[1]] = like(@, ps[2])])
                 ELSE Done(d)
      [] op = "UNLIKE_POST" ->
            IF n < 2 THEN Done(d)
            ELSE IF n > 2 THEN Raise(d)
            ELSE IF ps[1] \in DOMAIN d.posts /\ ps[2] \in d.users
                 THEN Done([d EXCEPT !.posts[ps[1]] = unlike(@, ps[2])])
                 ELSE Done(d)
      [] op = "DELETE_POST" ->
            IF n < 2 THEN Done(d)
            ELSE IF n > 2 THEN Raise(d)
            ELSE IF ps[1] \in DOMAIN d.posts /\ ps[2] = d.posts[ps[1]].author
                 THEN IF ps[2] \notin d.users THEN Raise(d)
                      ELSE Done([d EXCEPT !.posts = Del(@, ps[1])])
                 ELSE Done(d)
      [] op = "DELETE_ACCOUNT" ->
            IF n < 1 THEN Done(d)
            ELSE Done([d EXCEPT !.users = @ \ {ps[1]}])
      [] OTHER -> Done(d)

\* Server.save_data: the tables as the CSV files hold them
save_data(d) == d

\* Server.load_data: the likes column holds the repr of a Python list, which
\* json.loads rejects unless the list is empty, so every post loads with likes = []
load_data(s) ==
    [s EXCEPT !.posts = [p \in DOMAIN s.posts |-> [s.posts[p] EXCEPT !.likes = <<>>]]]


\* --------------------------------------------------------------- one node
\* the call raised or timed out: no Response
Failed == [st |-> "none", term |-> 0, ok |-> FALSE]
\* blog_pb2.Response(term=t, voteGranted=ok) or (term=t, success=ok)
Response(t, ok) == [st |-> "resp", term |-> t, ok |-> ok]
\* blog_pb2.Response(operation=FAILURE) and (operation=SUCCESS) of a client RPC, and
\* the FAILURE and SUCCESS of replicate_command
Failure == [st |-> "FAILURE", term |-> 0, ok |-> FALSE]
Success == [st |-> "SUCCESS", term |-> 0, ok |-> TRUE]

\* The state of node i as one record.  The handlers below map such a record to the
\* record after the handler; reply is the Response the handler returned and trace
\* the <<index, entry>> pairs it handed to apply_blog_operation.
Node(i) ==
    [id |-> i,
     currentTerm |-> currentTerm[i], votedFor |-> votedFor[i], log |-> log[i],
     commitIndex |-> commitIndex[i], lastApplied |-> lastApplied[i],
     role |-> role[i], nextIndex |-> nextIndex[i], matchIndex |-> matchIndex[i],
     replicas |-> replicas[i], disk |-> disk[i], db |-> db[i], store |-> store[i],
     electionTimer |-> electionTimer[i], heartbeatTimer |-> heartbeatTimer[i],
     voted |-> voted[i], trace |-> trace[i], unsaved |-> unsaved[i],
     reply |-> Failed, sent |-> <<>>]

\* the nodes of upd take the states upd gives them
Install(upd) ==
    LET new(i) == IF i \in DOMAIN upd THEN upd[i] ELSE Node(i)
    IN  /\ currentTerm' = [i \in Nodes |-> new(i).currentTerm]
        /\ votedFor' = [i \in Nodes |-> new(i).votedFor]
        /\ log' = [i \in Nodes |-> new(i).log]
        /\ commitIndex' = [i \in Nodes |-> new(i).commitIndex]
        /\ lastApplied' = [i \in Nodes |-> new(i).lastApplied]
        /\ role' = [i \in Nodes |-> new(i).role]
        /\ nextIndex' = [i \in Nodes |-> new(i).nextIndex]
        /\ matchIndex' = [i \in Nodes |-> new(i).matchIndex]
        /\ replicas' = [i \in Nodes |-> new(i).replicas]
        /\ disk' = [i \in Nodes |-> new(i).disk]
        /\ db' = [i \in Nodes |-> new(i).db]
        /\ store' = [i \in Nodes |-> new(i).store]
        /\ electionTimer' = [i \in Nodes |-> new(i).electionTimer]
        /\ heartbeatTimer' = [i \in Nodes |-> new(i).heartbeatTimer]
        /\ voted' = [i \in Nodes |-> new(i).voted]
        /\ trace' = [i \in Nodes |-> new(i).trace]
        /\ unsaved' = [i \in Nodes |-> new(i).unsaved]
        /\ everApplied' = everApplied \cup
                          UNION {Range(upd[i].trace) : i \in DOMAIN upd}

\* the whole cluster as one value: the state of every node
Cluster == [i \in Nodes |-> Node(i)]

\* RaftNode.save_raft_state: the raft store holds the node's term, vote and log
save_raft_state(n) ==
    [n EXCEPT !.disk = RaftState(n.currentTerm, n.votedFor, n.log)]

\* a Response that acknowledges (voteGranted, success, SUCCESS to a client) leaves
\* the node n: what is recorded when the raft store lags the node's state
acknowledge(n, what) ==
    IF n.disk = RaftState(n.currentTerm, n.votedFor, n.log) THEN n
    ELSE [n EXCEPT !.unsaved = @ \cup {what}]

\* Server.reset_election_timer
reset_election_timer(n) == [n EXCEPT !.electionTimer = TRUE]

\* Server.reset_heartbeat_timer
reset_heartbeat_timer(n) == [n EXCEPT !.heartbeatTimer = TRUE]

\* ------------------------------------------------------------------- log
\* the loop of RaftNode.append_entries_to_log (lines 181-194) from the k-th entry on
RECURSIVE reconcile(_, _, _, _)
reconcile(l, prevLogIndex, entries, k) ==
    IF k > Len(entries) THEN l
    ELSE LET i == prevLogIndex + k - 1
             new_entry == entries[k]
             l1 == IF i < Len(l)
                   THEN IF l[i + 1].term # new_entry.term
                        THEN Append(SubSeq(l, 1, i), new_entry)
                        ELSE l
                   ELSE Append(l, new_entry)
         IN  reconcile(l1, prevLogIndex, entries, k + 1)

\* RaftNode.append_entries_to_log on the node n: reply.ok is the value returned
append_entries_to_log(n, prevLogIndex, prevLogTerm, entries) ==
    IF prevLogIndex = 0
    THEN IF Len(entries) > 0
         THEN LET l0 == IF Len(n.log) > 0 /\ n.log[1].term # entries[1].term
                        THEN <<>> ELSE n.log
              IN  save_raft_state([n EXCEPT !.log = l0 \o entries,
                                            !.reply = Response(0, TRUE)])
         ELSE [n EXCEPT !.reply = Response(0, TRUE)]
    ELSE IF prevLogIndex > Len(n.log)
    THEN [n EXCEPT !.reply = Response(0, FALSE)]
    ELSE IF prevLogIndex > 0 /\ n.log[prevLogIndex].term # prevLogTerm
    THEN [n EXCEPT !.reply = Response(0, FALSE)]
    ELSE save_raft_state([n EXCEPT !.log = reconcile(n.log, prevLogIndex, entries, 1),
                                   !.reply = Response(0, TRUE)])

\* ------------------------------------------------------------------ apply
Raising == [Failed EXCEPT !.st = "raise"]

Raised(n) == n.reply.st = "raise"

\* one iteration of the loop of Server.apply_committed_entries after lastApplied
\* became k: r is what apply_blog_operation did with log[k]
applied(n, k, r) ==
    [n EXCEPT !.lastApplied = k, !.db = r.db,
              !.trace = Append(@, <<k, n.log[k]>>),
              !.reply = IF r.ok THEN @ ELSE Raising]

\* add_replica_local that writes replicas.json and the peer's progress but leaves
\* replicas_config as it was: what C21 excludes
add_replica_local_file_only(n, id) ==
    [n EXCEPT !.nextIndex = (id :> (Len(n.log) + 1)) @@ @,
              !.matchIndex = (id :> 0) @@ @]

\* Server.add_replica_local for the config of the peer id.  replicas.json holds the
\* node's replica set, with or without the new peer (start_servers writes the peer
\* before it notifies the cluster), so arr is the replica set with the peer.
add_replica_local(n, id) ==
    [n EXCEPT !.replicas = @ \cup {id},
              !.nextIndex = (id :> (Len(n.log) + 1)) @@ @,
              !.matchIndex = (id :> 0) @@ @]

\* the ADD_REPLICA branch of Server.apply_blog_operation (lines 597-600): params[0]
\* is the JSON of a config, of which the model keeps the id
membership(n, e) ==
    IF Raised(n) \/ e.operation # "ADD_REPLICA" THEN n
    ELSE IF Len(e.params) < 1 THEN [n EXCEPT !.reply = Raising]
    ELSE add_replica_local(n, e.params[1])

\* The loop of Server.apply_committed_entries.  reply.st = "raise" when
\* log[lastApplied-1] or apply_blog_operation raises, which leaves the loop with
\* lastApplied already advanced.
RECURSIVE apply_loop(_)
apply_loop(n) ==
    IF Raised(n) \/ n.lastApplied >= n.commitIndex THEN n
    ELSE IF n.lastApplied + 1 > Len(n.log)
    THEN [n EXCEPT !.lastApplied = @ + 1, !.reply = Raising]
    ELSE apply_loop(membership(
                        applied(n, n.lastApplied + 1,
                                apply_blog_operation(n.db, n.log[n.lastApplied + 1])),
                        n.log[n.lastApplied + 1]))

\* Server.save_data on the node n
saved_data(n) == [n EXCEPT !.store = save_data(n.db)]

\* save_data at the end of apply_committed_entries, which a raise before it skips
then_save_data(n) == IF Raised(n) THEN n ELSE saved_data(n)

\* Server.apply_committed_entries: the loop, then save_data
apply_committed_entries(n) == then_save_data(apply_loop([n EXCEPT !.reply = Failed]))

\* --------------------------------------------------------------- election
\* become_leader with nextIndex at the last index instead of one past it: what
\* C15 excludes
become_leader_at_last(n) ==
    reset_heartbeat_timer(
        [n EXCEPT !.role = "leader",
                  !.nextIndex = [j \in DOMAIN @ \cup Peers(n) |->
                                    IF j \in Peers(n) THEN Len(n.log) ELSE @[j]],
                  !.matchIndex = [j \in DOMAIN @ \cup Peers(n) |->
                                    IF j \in Peers(n) THEN 0 ELSE @[j]]])

\* Server.become_leader
become_leader(n) ==
    reset_heartbeat_timer(
        [n EXCEPT !.role = "leader",
                  !.nextIndex = [j \in DOMAIN @ \cup Peers(n) |->
                                    IF j \in Peers(n) THEN Len(n.log) + 1 ELSE @[j]],
                  !.matchIndex = [j \in DOMAIN @ \cup Peers(n) |->
                                    IF j \in Peers(n) THEN 0 ELSE @[j]]])

\* Server.become_candidate on a node that is not leader, up to the start of the
\* RequestVote threads (lines 168-175)
start_election(n) ==
    reset_election_timer(
        save_raft_state([n EXCEPT !.role = "candidate",
                                  !.currentTerm = @ + 1,
                                  !.votedFor = n.id,
                                  !.voted = @ \cup {<<n.currentTerm + 1, n.id>>}]))

\* the Request of request_vote_async (lines 179-184)
RequestVoteRequest(n) ==
    [term |-> n.currentTerm, candidateId |-> n.id,
     lastLogIndex |-> last_log_index(n.log), lastLogTerm |-> last_log_term(n.log)]

\* log_is_current comparing the lengths only: what C14 excludes
log_is_longer(lastLogIndex, lastLogTerm, l) == lastLogIndex >= last_log_index(l)

\* log_is_current of Server.RequestVote
log_is_current(lastLogIndex, lastLogTerm, l) ==
    \/ lastLogTerm > last_log_term(l)
    \/ /\ lastLogTerm = last_log_term(l)
       /\ lastLogIndex >= last_log_index(l)

\* step_down without the write to the raft store: what C27 excludes
step_down_unsaved(n, term) ==
    [n EXCEPT !.role = "follower", !.currentTerm = term, !.votedFor = NoVote]

\* a handler meets a term above its own (RequestVote lines 671-675, AppendEntries
\* lines 699-703, handle_append_entries_response lines 321-325, become_candidate
\* lines 203-206)
step_down(n, term) ==
    save_raft_state([n EXCEPT !.role = "follower", !.currentTerm = term,
                              !.votedFor = NoVote])

\* vote with the Response sent before the vote is saved: what C10 excludes
vote_unsaved(n, request, candId) ==
    IF /\ ~(n.votedFor # NoVote /\ n.votedFor # candId)
       /\ log_is_current(request.lastLogIndex, request.lastLogTerm, n.log)
    THEN [acknowledge(
              reset_election_timer(
                  [n EXCEPT !.votedFor = candId,
                            !.voted = @ \cup {<<n.currentTerm, candId>>}]),
              "voteGranted")
          EXCEPT !.reply = Response(n.currentTerm, TRUE)]
    ELSE [n EXCEPT !.reply = Response(n.currentTerm, FALSE)]

\* Server.RequestVote from already_voted on (lines 677-691)
vote(n, request, candId) ==
    IF /\ ~(n.votedFor # NoVote /\ n.votedFor # candId)
       /\ log_is_current(request.lastLogIndex, request.lastLogTerm, n.log)
    THEN [acknowledge(
              reset_election_timer(
                  save_raft_state(
                      [n EXCEPT !.votedFor = candId,
                                !.voted = @ \cup {<<n.currentTerm, candId>>}])),
              "voteGranted")
          EXCEPT !.reply = Response(n.currentTerm, TRUE)]
    ELSE [n EXCEPT !.reply = Response(n.currentTerm, FALSE)]

\* Server.RequestVote on the node n for the request of candidate candId
\* (lines 660-691)
RequestVote(n, request, candId) ==
    IF request.term < n.currentTerm
    THEN [n EXCEPT !.reply = Response(n.currentTerm, FALSE)]
    ELSE IF request.term > n.currentTerm
    THEN vote(step_down(n, request.term), request, candId)
    ELSE vote(n, request, candId)

\* Server.become_candidate after the threads are joined (lines 198-216): the loop
\* over results from its k-th element on, votes_granted so far, against the term
\* read at line 198
RECURSIVE tally(_, _, _, _, _)
tally(n, term, results, k, votes_granted) ==
    IF k > Len(results)
    THEN IF votes_granted >= Majority(n) THEN become_leader(n)
         ELSE reset_election_timer(n)
    ELSE IF results[k].st # "resp" THEN tally(n, term, results, k + 1, votes_granted)
    ELSE IF results[k].term > term THEN step_down(n, results[k].term)
    ELSE tally(n, term, results, k + 1,
               IF results[k].ok THEN votes_granted + 1 ELSE votes_granted)

\* the thread of request_vote_async for the peer rid is over: the peer is as callee
\* says and its Response is appended to results
voted_by(r, rid, callee) ==
    [ns |-> [r.ns EXCEPT ![rid] = callee], results |-> Append(r.results, callee.reply)]

\* the request_vote_async threads of candidate i, finishing in the order of the
\* peers: the peers in up handle the request, the calls to the others fail
RECURSIVE request_votes(_, _, _, _, _)
request_votes(r, i, req, todo, up) ==
    IF todo = {} THEN r
    ELSE IF (CHOOSE j \in todo : \A k \in todo : j <= k) \in up
    THEN request_votes(
             voted_by(r, CHOOSE j \in todo : \A k \in todo : j <= k,
                      RequestVote(r.ns[CHOOSE j \in todo : \A k \in todo : j <= k],
                                  req, i)),
             i, req, todo \ {CHOOSE j \in todo : \A k \in todo : j <= k}, up)
    ELSE request_votes([r EXCEPT !.results = Append(@, Failed)], i, req,
                       todo \ {CHOOSE j \in todo : \A k \in todo : j <= k}, up)

\* the tally of candidate i on the cluster and results of r
tallied(r, i) ==
    [r.ns EXCEPT ![i] = tally(@, @.currentTerm, r.results, 1, 1)]

\* Server.become_candidate of a node i that is not leader (lines 168-216)
run_election(ns, i, up) ==
    tallied(request_votes([ns |-> ns, results |-> <<>>], i, RequestVoteRequest(ns[i]),
                          Peers(ns[i]), up), i)

\* Server.become_candidate of node i (lines 165-216), the timer that called it spent
become_candidate(ns, i, up) ==
    IF ns[i].role = "leader" THEN [ns EXCEPT ![i].electionTimer = FALSE]
    ELSE run_election([ns EXCEPT ![i] = start_election(@)], i, up)

\* ------------------------------------------------------------ replication
\* Server.AppendEntries, the end (lines 743-752): the final save_raft_state, the
\* save_data of entries that were not applied, the Response
append_entries_reply(n, request, commit_index_changed) ==
    IF Raised(n) THEN n
    ELSE acknowledge(
             [save_raft_state(n) EXCEPT
                !.store = IF ~commit_index_changed /\ Len(request.entries) > 0
                          THEN save_data(n.db) ELSE @,
                !.reply = Response(n.currentTerm, TRUE)],
             "success")

\* Server.AppendEntries, the commit (lines 730-740): n is the node after its log
\* was updated
append_entries_commit(n, request) ==
    IF request.leaderCommit > n.commitIndex
    THEN IF Min(request.leaderCommit, Len(n.log)) > n.commitIndex
         THEN append_entries_reply(
                  apply_committed_entries(
                      [n EXCEPT !.commitIndex = Min(request.leaderCommit, Len(n.log))]),
                  request, TRUE)
         ELSE append_entries_reply(
                  [n EXCEPT !.commitIndex = Min(request.leaderCommit, Len(n.log))],
                  request, FALSE)
    ELSE append_entries_reply(n, request, FALSE)

\* Server.AppendEntries after the log update (lines 727-752): n.reply.ok is success
append_entries_logged(n, request) ==
    IF ~n.reply.ok THEN [n EXCEPT !.reply = Response(n.currentTerm, FALSE)]
    ELSE append_entries_commit(n, request)

\* Server.AppendEntries from reset_election_timer on (lines 705-752)
append_entries_current(n, request) ==
    IF request.prevLogIndex = 0
    THEN append_entries_logged(
             [reset_election_timer(n) EXCEPT !.log = request.entries,
                                             !.reply = Response(0, TRUE)],
             request)
    ELSE append_entries_logged(
             append_entries_to_log(reset_election_timer(n), request.prevLogIndex,
                                   request.prevLogTerm, request.entries),
             request)

\* AppendEntries that arms the election timer for a stale request too: what C28
\* excludes
AppendEntries_stale_reset(n, request) ==
    IF request.term < n.currentTerm
    THEN reset_election_timer([n EXCEPT !.reply = Response(n.currentTerm, FALSE)])
    ELSE IF request.term > n.currentTerm
    THEN append_entries_current(step_down(n, request.term), request)
    ELSE append_entries_current(n, request)

\* Server.AppendEntries on the node n (lines 694-752).  reply.st = "raise" when
\* apply_committed_entries raised: the handler then ended without its final save
\* and without a Response.
AppendEntries(n, request) ==
    IF request.term < n.currentTerm
    THEN [n EXCEPT !.reply = Response(n.currentTerm, FALSE)]
    ELSE IF request.term > n.currentTerm
    THEN append_entries_current(step_down(n, request.term), request)
    ELSE append_entries_current(n, request)

\* the request send_append_entries_to_all builds for the peer rid (lines 282-300)
AppendEntriesRequest(n, rid) ==
    [from |-> n.id, to |-> rid,
     term |-> n.currentTerm,
     prevLogIndex |-> n.nextIndex[rid] - 1,
     prevLogTerm |-> IF n.nextIndex[rid] - 1 > 0 /\ n.nextIndex[rid] - 1 <= Len(n.log)
                     THEN n.log[n.nextIndex[rid] - 1].term ELSE 0,
     entries |-> IF n.nextIndex[rid] <= Len(n.log)
                 THEN SubSeq(n.log, n.nextIndex[rid], Len(n.log)) ELSE <<>>,
     leaderCommit |-> n.commitIndex]

\* the commit loop of handle_append_entries_response (lines 336-345): it stops at
\* the first n above commitIndex whose entry is of the current term and that a
\* majority holds
CommitCandidates(n) ==
    {k \in (n.commitIndex + 1)..Len(n.log) :
        /\ n.log[k].term = n.currentTerm
        /\ 1 + Cardinality({rid \in DOMAIN n.matchIndex : n.matchIndex[rid] >= k})
              >= Majority(n)}

AdvanceCommit(n) ==
    IF CommitCandidates(n) = {} THEN n
    ELSE [n EXCEPT !.commitIndex =
            CHOOSE k \in CommitCandidates(n) : \A m \in CommitCandidates(n) : k <= m]

\* lines 330-333 of handle_append_entries_response
advance_indexes(n, followerId, appended_count) ==
    IF appended_count > 0
    THEN [n EXCEPT !.nextIndex[followerId] = @ + appended_count,
                   !.matchIndex[followerId] = n.nextIndex[followerId] + appended_count - 1]
    ELSE n

\* handle_append_entries_response that falls back to nextIndex 1 on a failure:
\* what C31 excludes
handle_append_entries_response_reset(n, resp, followerId, req) ==
    IF resp.term > n.currentTerm THEN step_down(n, resp.term)
    ELSE IF n.role # "leader" THEN n
    ELSE IF resp.ok
    THEN apply_committed_entries(
             AdvanceCommit(advance_indexes(n, followerId, Len(req.entries))))
    ELSE [n EXCEPT !.nextIndex[followerId] = 1]

\* Server.handle_append_entries_response on the node n (lines 318-352)
handle_append_entries_response(n, resp, followerId, req) ==
    IF resp.term > n.currentTerm THEN step_down(n, resp.term)
    ELSE IF n.role # "leader" THEN n
    ELSE IF resp.ok
    THEN apply_committed_entries(
             AdvanceCommit(advance_indexes(n, followerId, Len(req.entries))))
    ELSE [n EXCEPT !.nextIndex[followerId] = IF @ > 1 THEN @ - 1 ELSE @]

\* lines 647-649 of replicate_command
commit_on_append(n) == apply_committed_entries([n EXCEPT !.commitIndex = Len(n.log)])

\* replicate_command without its test of the role: what C13 excludes
replicate_command_any_role(n, op, params) ==
    commit_on_append(
        save_raft_state([n EXCEPT !.log = Append(@, RaftLogEntry(n.currentTerm, op,
                                                                params))]))

\* Server.replicate_command on the node n up to its fan-out (lines 640-649)
replicate_command(n, op, params) ==
    IF n.role # "leader" THEN [n EXCEPT !.reply = Failure]
    ELSE commit_on_append(
             save_raft_state([n EXCEPT !.log = Append(@, RaftLogEntry(n.currentTerm, op,
                                                                     params))]))

\* the call of append_entries_async returned: the peer is as callee says, and node i
\* handles its Response; a handler that raised is a failed call for node i
appended_by(ns, i, followerId, req, callee) ==
    [ns EXCEPT ![followerId] = callee,
               ![i] = IF Raised(callee) THEN @
                      ELSE handle_append_entries_response(@, callee.reply, followerId,
                                                          req)]

\* Server.append_entries_async of node i for the peer followerId: the peer handles
\* req and node i handles the response, or (delivered = FALSE) the call fails
append_entries_async(ns, i, followerId, req, delivered) ==
    IF ~delivered THEN [ns EXCEPT ![i].sent = Append(@, req)]
    ELSE appended_by([ns EXCEPT ![i].sent = Append(@, req)], i, followerId, req,
                     AppendEntries(ns[followerId], req))

\* the threads of send_append_entries_to_all, in the order of the peers
RECURSIVE fan_out(_, _, _, _, _)
fan_out(ns, i, reqs, todo, delivered) ==
    IF todo = {} THEN ns
    ELSE fan_out(append_entries_async(
                     ns, i, CHOOSE j \in todo : \A k \in todo : j <= k,
                     reqs[CHOOSE j \in todo : \A k \in todo : j <= k],
                     (CHOOSE j \in todo : \A k \in todo : j <= k) \in delivered),
                 i, reqs, todo \ {CHOOSE j \in todo : \A k \in todo : j <= k}, delivered)

\* Server.send_append_entries_to_all of node i (lines 275-307): every request is
\* built, then its thread runs; delivered are the peers whose call goes through
send_append_entries_to_all(ns, i, delivered) ==
    fan_out(ns, i, [rid \in Peers(ns[i]) |-> AppendEntriesRequest(ns[i], rid)],
            Peers(ns[i]), delivered)

\* -------------------------------------------------------------- heartbeat
\* hb_req of check_leader_status (lines 247-254): it carries no entries
hb_req(n) ==
    [from |-> n.id, to |-> 0, term |-> n.currentTerm,
     prevLogIndex |-> last_log_index(n.log), prevLogTerm |-> last_log_term(n.log),
     entries |-> <<>>, leaderCommit |-> n.commitIndex]

\* one ping of check_leader_status answered (lines 259-262): the peer is as callee
\* says; it counts as reachable when its Response has the term of node i
pinged(r, i, rid, callee) ==
    [ns |-> [r.ns EXCEPT ![rid] = callee],
     reachable |-> IF ~Raised(callee) /\ callee.reply.term = r.ns[i].currentTerm
                   THEN r.reachable + 1 ELSE r.reachable]

\* the ping loop of check_leader_status (lines 257-265), in the order of the peers;
\* the pings to the peers outside answering fail
RECURSIVE ping_loop(_, _, _, _, _)
ping_loop(r, i, req, todo, answering) ==
    IF todo = {} THEN r
    ELSE IF (CHOOSE j \in todo : \A k \in todo : j <= k) \in answering
    THEN ping_loop(pinged(r, i, CHOOSE j \in todo : \A k \in todo : j <= k,
                          AppendEntries(r.ns[CHOOSE j \in todo : \A k \in todo : j <= k],
                                        req)),
                   i, req, todo \ {CHOOSE j \in todo : \A k \in todo : j <= k}, answering)
    ELSE ping_loop(r, i, req, todo \ {CHOOSE j \in todo : \A k \in todo : j <= k},
                   answering)

\* check_leader_status that keeps a leader that reached one peer less than a
\* majority: what C34 excludes
check_leader_status_end_lenient(r, i) ==
    [r.ns EXCEPT ![i] = reset_election_timer(
        [@ EXCEPT !.role = IF r.reachable + 1 < Majority(r.ns[i]) THEN "follower"
                           ELSE @])]

\* the end of check_leader_status (lines 267-272)
check_leader_status_end(r, i) ==
    [r.ns EXCEPT ![i] = reset_election_timer(
        [@ EXCEPT !.role = IF r.reachable < Majority(r.ns[i]) THEN "follower" ELSE @])]

\* Server.check_leader_status of a leader i (lines 236-272)
check_leader_status(ns, i, answering) ==
    check_leader_status_end(
        ping_loop([ns |-> ns, reachable |-> 1], i, hb_req(ns[i]), Peers(ns[i]),
                  answering), i)

\* lines 232-233 of leader_heartbeat without line 234: what C20 excludes
heartbeat_fan_out_once(ns, i, delivered) ==
    IF ns[i].role = "leader" THEN send_append_entries_to_all(ns, i, delivered) ELSE ns

\* lines 232-234 of leader_heartbeat
heartbeat_fan_out(ns, i, delivered) ==
    IF ns[i].role = "leader"
    THEN [send_append_entries_to_all(ns, i, delivered) EXCEPT
             ![i] = reset_heartbeat_timer(@)]
    ELSE ns

\* Server.leader_heartbeat of node i (lines 227-234), the timer that called it spent
leader_heartbeat(ns, i, answering, delivered) ==
    IF ns[i].role # "leader" THEN [ns EXCEPT ![i].heartbeatTimer = FALSE]
    ELSE heartbeat_fan_out(
             check_leader_status([ns EXCEPT ![i].heartbeatTimer = FALSE], i, answering),
             i, delivered)

\* ---------------------------------------------------------------- restart
\* Server.__init__ on the stores a crashed process left (lines 53-92)
Server(i, n) ==
    [id |-> i,
     currentTerm |-> n.disk.currentTerm, votedFor |-> NoVote, log |-> n.disk.log,
     commitIndex |-> 0, lastApplied |-> 0, role |-> "follower",
     nextIndex |-> [j \in n.replicas \ {i} |-> Len(n.disk.log) + 1],
     matchIndex |-> [j \in n.replicas \ {i} |-> 0],
     replicas |-> n.replicas,
     disk |-> RaftState(n.disk.currentTerm, NoVote, n.disk.log),
     db |-> load_data(n.store), store |-> n.store,
     electionTimer |-> TRUE, heartbeatTimer |-> FALSE,
     voted |-> n.voted, trace |-> <<>>, unsaved |-> n.unsaved, reply |-> Failed,
     sent |-> <<>>]

\* no handler thread is followed step by step.  In an election req holds the
\* Requests sent so far and term the term of line 169 until the join, then the
\* term read at line 198.
NoThread ==
    [pc |-> "idle", node |-> 0, req |-> <<>>, pending |-> {}, results |-> <<>>,
     term |-> 0, k |-> 0, votes_granted |-> 0, entry |-> <<>>]

\* =========================================================================
\* The cluster at handler granularity
\* =========================================================================
\* Server.__init__ of every node on empty stores
Init ==
    /\ currentTerm = [i \in Nodes |-> 0]
    /\ votedFor = [i \in Nodes |-> NoVote]
    /\ log = [i \in Nodes |-> <<>>]
    /\ commitIndex = [i \in Nodes |-> 0]
    /\ lastApplied = [i \in Nodes |-> 0]
    /\ role = [i \in Nodes |-> "follower"]
    /\ nextIndex = [i \in Nodes |-> [j \in Nodes \ {i} |-> 1]]
    /\ matchIndex = [i \in Nodes |-> [j \in Nodes \ {i} |-> 0]]
    /\ replicas = [i \in Nodes |-> Nodes]
    /\ disk = [i \in Nodes |-> RaftState(0, NoVote, <<>>)]
    /\ db = [i \in Nodes |-> EmptyDb]
    /\ store = [i \in Nodes |-> save_data(EmptyDb)]
    /\ electionTimer = [i \in Nodes |-> TRUE]
    /\ heartbeatTimer = [i \in Nodes |-> FALSE]
    /\ restarts = 0
    /\ voted = [i \in Nodes |-> {}]
    /\ trace = [i \in Nodes |-> <<>>]
    /\ unsaved = [i \in Nodes |-> {}]
    /\ everApplied = {}
    /\ thread = NoThread

\* the election timer of node i fires; up are the peers its calls reach
ElectionTimeout(i, up) ==
    /\ electionTimer[i]
    /\ Install(become_candidate(Cluster, i, up))
    /\ UNCHANGED <<restarts, thread>>

\* the process of node i is killed and started again
Restart(i) ==
    /\ restarts < MaxRestarts
    /\ restarts' = restarts + 1
    /\ Install(i :> Server(i, Node(i)))
    /\ UNCHANGED thread

\* the heartbeat timer of node i fires; up are the peers its calls reach during
\* this heartbeat
HeartbeatTimeout(i, up) ==
    /\ heartbeatTimer[i]
    /\ Install(leader_heartbeat(Cluster, i, up, up))
    /\ UNCHANGED <<restarts, thread>>

\* replicate_command returned SUCCESS to the RPC handler of node i, which calls
\* save_data and answers SUCCESS
rpc_success(ns, i) ==
    [ns EXCEPT ![i] = [acknowledge(saved_data(@), "SUCCESS") EXCEPT !.reply = Success]]

\* replicate_command returned SUCCESS to an RPC handler that answers SUCCESS
\* without save_data (lines 941-942)
rpc_answered(ns, i) ==
    [ns EXCEPT ![i] = [acknowledge(@, "SUCCESS") EXCEPT !.reply = Success]]

\* the RPC handler of node i answers FAILURE
rpc_failure(ns, i) == [ns EXCEPT ![i].reply = Failure]

\* Server.replicate_command of node i from its fan-out on (lines 651-653), and the
\* handler's save_data; a raise in apply_committed_entries ends the handler, and
\* FAILURE is passed on
replicated(ns, i, delivered) ==
    IF Raised(ns[i]) \/ ns[i].reply = Failure THEN ns
    ELSE rpc_success(send_append_entries_to_all(ns, i, delivered), i)

\* the same for a handler without save_data
replicated_plain(ns, i, delivered) ==
    IF Raised(ns[i]) \/ ns[i].reply = Failure THEN ns
    ELSE rpc_answered(send_append_entries_to_all(ns, i, delivered), i)

\* Server.RPCSubscribe on node i with request.info = info (lines 858-879)
subscribe(ns, i, info, delivered) ==
    IF ns[i].role # "leader" \/ Len(info) # 1 THEN rpc_failure(ns, i)
    ELSE IF info[1] \in ns[i].db.users THEN rpc_failure(ns, i)
    ELSE replicated([ns EXCEPT ![i] = replicate_command(@, "SUBSCRIBE", info)],
                    i, delivered)

\* the client calls RPCSubscribe(email) on node i
RPCSubscribe(i, email, delivered) ==
    /\ Install(subscribe(Cluster, i, <<email>>, delivered))
    /\ UNCHANGED <<restarts, thread>>

\* Server.RPCAddReplica on node i with request.info = info (lines 1066-1079)
add_replica(ns, i, info, delivered) ==
    IF ns[i].role # "leader" \/ Len(info) < 1 THEN rpc_failure(ns, i)
    ELSE replicated_plain([ns EXCEPT ![i] = replicate_command(@, "ADD_REPLICA",
                                                              <<info[1]>>)],
                          i, delivered)

\* start_servers notifies node i of the peer id
RPCAddReplica(i, id, delivered) ==
    /\ Install(add_replica(Cluster, i, <<id>>, delivered))
    /\ UNCHANGED <<restarts, thread>>

\* the bounds of the exploration: no election above maxTerm, no log beyond maxLen
TermBelow(i, maxTerm) == currentTerm[i] < maxTerm
LogBelow(i, maxLen) == Len(log[i]) < maxLen

\* the cluster without crashes
Next ==
    \/ \E i \in Timeouts : \E up \in SUBSET Peers(Node(i)) :
            TermBelow(i, MaxTerm) /\ ElectionTimeout(i, up)
    \/ \E i \in Nodes : \E up \in SUBSET Peers(Node(i)) : HeartbeatTimeout(i, up)
    \/ \E i \in Clients, email \in Emails : \E delivered \in SUBSET Peers(Node(i)) :
            LogBelow(i, MaxLogLen) /\ RPCSubscribe(i, email, delivered)

Spec == Init /\ [][Next]_vars

\* the cluster with crash-restarts
NextCrash ==
    \/ \E i \in Timeouts : \E up \in SUBSET Peers(Node(i)) :
            TermBelow(i, MaxCrashTerm) /\ ElectionTimeout(i, up)
    \/ \E i \in Crashes : Restart(i)
    \/ \E i \in Nodes : \E up \in SUBSET Peers(Node(i)) : HeartbeatTimeout(i, up)
    \/ \E i \in Clients, email \in Emails : \E delivered \in SUBSET Peers(Node(i)) :
            LogBelow(i, MaxLogLen) /\ RPCSubscribe(i, email, delivered)

SpecCrash == Init /\ [][NextCrash]_vars
\* =========================================================================
\* become_candidate followed step by step
\* =========================================================================
\* The become_candidate thread of the node Candidate is followed from one point
\* where another thread of its process can run to the next; the handlers of the
\* other threads stay whole.
Candidate == 1
Rivals == {2}
MaxTermRace == 3

\* the election timer of node i fires: become_candidate up to the join (lines
\* 165-196); on a leader it returns at once
StartElection(i) ==
    /\ thread.pc = "idle"
    /\ electionTimer[i]
    /\ IF role[i] = "leader"
       THEN /\ Install(i :> [Node(i) EXCEPT !.electionTimer = FALSE])
            /\ UNCHANGED thread
       ELSE /\ Install(i :> start_election(Node(i)))
            /\ thread' = [NoThread EXCEPT
                            !.pc = "join", !.node = i,
                            !.term = currentTerm[i] + 1,
                            !.pending = Peers(Node(i))]
    /\ UNCHANGED restarts

\* the thread of request_vote_async for the peer rid runs (lines 177-187): req is
\* the Request it builds from the candidate's fields as they are now; rid handles
\* it and the Response is appended to results
request_vote_async(rid, req) ==
    /\ Install(rid :> RequestVote(Node(rid), req, thread.node))
    /\ thread' = [thread EXCEPT
                    !.pending = @ \ {rid},
                    !.req = Append(@, req),
                    !.results = Append(@, RequestVote(Node(rid), req, thread.node).reply)]

VoteReturns(rid) ==
    /\ thread.pc = "join"
    /\ rid \in thread.pending
    /\ request_vote_async(rid, RequestVoteRequest(Node(thread.node)))
    /\ UNCHANGED restarts

\* the call to rid fails: request_vote_async appends None
VoteFails(rid) ==
    /\ thread.pc = "join"
    /\ rid \in thread.pending
    /\ thread' = [thread EXCEPT !.pending = @ \ {rid}, !.results = Append(@, Failed)]
    /\ UNCHANGED <<nodeVars, everApplied, restarts>>

\* one iteration of the loop over results (lines 199-209) with currentTerm as read
\* at line 198; after the last one, the majority test (lines 211-216)
tally_step(i, term, k, votes_granted) ==
    IF k = Len(thread.results)
    THEN /\ Install(i :> tally(Node(i), term, thread.results, k, votes_granted))
         /\ thread' = NoThread
    ELSE IF thread.results[k].st = "resp" /\ thread.results[k].term > term
    THEN /\ Install(i :> step_down(Node(i), thread.results[k].term))
         /\ thread' = NoThread
    ELSE /\ thread' = [thread EXCEPT
                         !.pc = "loop", !.term = term, !.k = k + 1,
                         !.votes_granted =
                             IF thread.results[k].st = "resp" /\ thread.results[k].ok
                             THEN votes_granted + 1 ELSE votes_granted]
         /\ UNCHANGED <<nodeVars, everApplied>>

\* the threads are joined: line 198 and the first iteration
Joined ==
    /\ thread.pc = "join"
    /\ thread.pending = {}
    /\ tally_step(thread.node, currentTerm[thread.node], 1, 1)
    /\ UNCHANGED restarts

\* a later iteration
NextResult ==
    /\ thread.pc = "loop"
    /\ tally_step(thread.node, thread.term, thread.k, thread.votes_granted)
    /\ UNCHANGED restarts

NextElection ==
    \/ TermBelow(Candidate, MaxTermRace) /\ StartElection(Candidate)
    \/ \E rid \in Nodes : VoteReturns(rid)
    \/ \E rid \in Nodes : VoteFails(rid)
    \/ Joined
    \/ NextResult
    \/ \E i \in Rivals : \E up \in SUBSET Peers(Node(i)) :
            TermBelow(i, MaxTermRace) /\ ElectionTimeout(i, up)
    \/ \E i \in Nodes : \E up \in SUBSET Peers(Node(i)) : HeartbeatTimeout(i, up)

SpecElection == Init /\ [][NextElection]_vars
\* =========================================================================
\* apply_committed_entries followed step by step
\* =========================================================================
\* One RPCSubscribe handler thread of a leader is followed from one point where
\* another thread of its process can run to the next: after save_raft_state, and
\* at each call of apply_blog_operation.  The other handlers stay whole.
MaxTermApply == 1

\* RPCSubscribe up to the save_raft_state of replicate_command (lines 860-873 and
\* 641-645)
BeginSubscribe(i, email) ==
    /\ thread.pc = "idle"
    /\ role[i] = "leader"
    /\ email \notin db[i].users
    /\ Install(i :> save_raft_state(
                        [Node(i) EXCEPT !.log = Append(@, RaftLogEntry(
                                            currentTerm[i], "SUBSCRIBE", <<email>>))]))
    /\ thread' = [NoThread EXCEPT !.pc = "appended", !.node = i]
    /\ UNCHANGED restarts

\* the head of the loop of apply_committed_entries on the node n (lines 355-357):
\* the test, lastApplied += 1 and the read of the entry, which raises beyond the log
next_entry(n) ==
    IF n.lastApplied >= n.commitIndex
    THEN /\ Install(n.id :> n)
         /\ thread' = [thread EXCEPT !.pc = "saving", !.k = 0, !.entry = <<>>]
    ELSE /\ Install(n.id :> [n EXCEPT !.lastApplied = @ + 1])
         /\ thread' = IF n.lastApplied + 1 > Len(n.log) THEN NoThread
                      ELSE [thread EXCEPT !.pc = "apply", !.k = n.lastApplied + 1,
                                          !.entry = <<n.log[n.lastApplied + 1]>>]

\* line 648 of replicate_command, and the loop of apply_committed_entries up to its
\* first call of apply_blog_operation
CommitOnAppend ==
    /\ thread.pc = "appended"
    /\ next_entry([Node(thread.node) EXCEPT !.commitIndex = Len(log[thread.node])])
    /\ UNCHANGED restarts

\* apply_blog_operation did r with the entry the thread holds
applied_entry(n, r) ==
    IF r.ok
    THEN next_entry([n EXCEPT !.db = r.db,
                              !.trace = Append(@, <<thread.k, thread.entry[1]>>)])
    ELSE /\ Install(n.id :> [n EXCEPT !.db = r.db,
                                      !.trace = Append(@, <<thread.k, thread.entry[1]>>)])
         /\ thread' = NoThread

\* the call of apply_blog_operation (line 358), and the loop up to its next call
ApplyEntry ==
    /\ thread.pc = "apply"
    /\ applied_entry(Node(thread.node),
                     apply_blog_operation(db[thread.node], thread.entry[1]))
    /\ UNCHANGED restarts

\* the save_data of apply_committed_entries, the fan-out of replicate_command and
\* the rest of RPCSubscribe (lines 359, 652-653, 876-878)
FinishSubscribe(delivered) ==
    /\ thread.pc = "saving"
    /\ Install(rpc_success(
                   send_append_entries_to_all(
                       [Cluster EXCEPT ![thread.node] = saved_data(@)],
                       thread.node, delivered),
                   thread.node))
    /\ thread' = NoThread
    /\ UNCHANGED restarts

NextApply ==
    \/ \E i \in Timeouts : \E up \in SUBSET Peers(Node(i)) :
            TermBelow(i, MaxTermApply) /\ ElectionTimeout(i, up)
    \/ \E i \in Nodes : \E up \in SUBSET Peers(Node(i)) : HeartbeatTimeout(i, up)
    \/ \E i \in Clients, email \in Emails : \E delivered \in SUBSET Peers(Node(i)) :
            LogBelow(i, MaxLogLen) /\ RPCSubscribe(i, email, delivered)
    \/ \E i \in Clients, email \in Emails :
            LogBelow(i, MaxLogLen) /\ BeginSubscribe(i, email)
    \/ CommitOnAppend
    \/ ApplyEntry
    \/ \E delivered \in SUBSET (Nodes \ {thread.node}) : FinishSubscribe(delivered)

SpecApply == Init /\ [][NextApply]_vars
\* =========================================================================
\* Two RPCSubscribe handler threads of one leader
\* =========================================================================
\* The gRPC server runs its handlers on a pool of threads.  The RPCSubscribe
\* handler threads of a leader are followed across one point where another thread
\* of the process can run: the save_raft_state of replicate_command.
MaxHandlers == 2

\* a handler thread of RPCSubscribe runs up to the save_raft_state of
\* replicate_command (lines 860-873 and 641-645); thread.pending holds the emails
\* of the threads at that point
AppendSubscribe(i, email) ==
    /\ thread.pc \in {"idle", "paused"}
    /\ thread.pc = "paused" => thread.node = i
    /\ Cardinality(thread.pending) < MaxHandlers
    /\ email \notin thread.pending
    /\ role[i] = "leader"
    /\ email \notin db[i].users
    /\ Install(i :> save_raft_state(
                        [Node(i) EXCEPT !.log = Append(@, RaftLogEntry(
                                            currentTerm[i], "SUBSCRIBE", <<email>>))]))
    /\ thread' = [thread EXCEPT !.pc = "paused", !.node = i, !.pending = @ \cup {email}]
    /\ UNCHANGED restarts

\* one of these threads runs the rest of replicate_command and of RPCSubscribe
\* (lines 647-653 and 876-878)
ResumeSubscribe(email, delivered) ==
    /\ thread.pc = "paused"
    /\ email \in thread.pending
    /\ Install(replicated([Cluster EXCEPT ![thread.node] = commit_on_append(@)],
                          thread.node, delivered))
    /\ thread' = IF thread.pending = {email} THEN NoThread
                 ELSE [thread EXCEPT !.pending = @ \ {email}]
    /\ UNCHANGED restarts

NextAppend ==
    \/ \E i \in Timeouts : \E up \in SUBSET Peers(Node(i)) :
            TermBelow(i, MaxTermApply) /\ ElectionTimeout(i, up)
    \/ \E i \in Nodes : \E up \in SUBSET Peers(Node(i)) : HeartbeatTimeout(i, up)
    \/ \E i \in Clients, email \in Emails :
            LogBelow(i, MaxLogLen) /\ AppendSubscribe(i, email)
    \/ \E email \in Emails : \E delivered \in SUBSET (Nodes \ {thread.node}) :
            ResumeSubscribe(email, delivered)

SpecAppend == Init /\ [][NextAppend]_vars
\* =========================================================================
\* Posts and comments
\* =========================================================================
MaxAppLogLen == 3

\* line 791 of RPCCreatePost: the handler stores its own Post object
store_post(n, post_id, author, title, content) ==
    [n EXCEPT !.db.posts = Put(@, post_id, Post(author, title, content))]

\* Server.RPCCreatePost on node i with request.info = info (lines 762-796);
\* post_id is the uuid4 drawn
create_post(ns, i, post_id, info, delivered) ==
    IF ns[i].role # "leader" \/ Len(info) # 3 THEN rpc_failure(ns, i)
    ELSE IF Raised(replicate_command(ns[i], "CREATE_POST",
                                     <<post_id, info[1], info[2], info[3], "ts">>))
    THEN [ns EXCEPT ![i] = replicate_command(
                               @, "CREATE_POST",
                               <<post_id, info[1], info[2], info[3], "ts">>)]
    ELSE [send_append_entries_to_all(
              [ns EXCEPT ![i] = replicate_command(
                                    @, "CREATE_POST",
                                    <<post_id, info[1], info[2], info[3], "ts">>)],
              i, delivered)
          EXCEPT ![i] = [acknowledge(
                             saved_data(store_post(@, post_id, info[3], info[1],
                                                   info[2])),
                             "SUCCESS")
                         EXCEPT !.reply = Success]]

\* the client calls RPCCreatePost(title, content, author) on node i
RPCCreatePost(i, post_id, author, title, content, delivered) ==
    /\ post_id \notin DOMAIN db[i].posts
    /\ Install(create_post(Cluster, i, post_id, <<title, content, author>>, delivered))
    /\ UNCHANGED <<restarts, thread>>

\* line 897 of RPCCommentPost: the handler appends a Comment to the post
append_comment(n, post_id, email, text) ==
    [n EXCEPT !.db.posts[post_id].comments = Append(@, Comment(email, text))]

\* Server.RPCCommentPost on node i with request.info = info (lines 881-900); a
\* request of more than three fields raises at the unpacking
comment_post(ns, i, info, delivered) ==
    IF ns[i].role # "leader" \/ Len(info) < 3 THEN rpc_failure(ns, i)
    ELSE IF Len(info) > 3 THEN [ns EXCEPT ![i].reply = Raising]
    ELSE IF info[1] \notin DOMAIN ns[i].db.posts \/ info[2] \notin ns[i].db.users
    THEN rpc_failure(ns, i)
    ELSE IF Raised(replicate_command(ns[i], "COMMENT_POST", info))
    THEN [ns EXCEPT ![i] = replicate_command(@, "COMMENT_POST", info)]
    ELSE [send_append_entries_to_all(
              [ns EXCEPT ![i] = replicate_command(@, "COMMENT_POST", info)],
              i, delivered)
          EXCEPT ![i] = [acknowledge(
                             saved_data(append_comment(@, info[1], info[2], info[3])),
                             "SUCCESS")
                         EXCEPT !.reply = Success]]

\* the client calls RPCCommentPost(post_id, email, text) on node i
RPCCommentPost(i, post_id, email, text, delivered) ==
    /\ Install(comment_post(Cluster, i, <<post_id, email, text>>, delivered))
    /\ UNCHANGED <<restarts, thread>>

NextApp ==
    \/ \E i \in Timeouts : \E up \in SUBSET Peers(Node(i)) :
            TermBelow(i, MaxTermApply) /\ ElectionTimeout(i, up)
    \/ \E i \in Nodes : \E up \in SUBSET Peers(Node(i)) : HeartbeatTimeout(i, up)
    \/ \E i \in Clients, email \in Emails : \E delivered \in SUBSET Peers(Node(i)) :
            LogBelow(i, MaxAppLogLen) /\ RPCSubscribe(i, email, delivered)
    \/ \E i \in Clients, post_id \in PostIds, author \in Emails, text \in Texts :
         \E delivered \in SUBSET Peers(Node(i)) :
            /\ LogBelow(i, MaxAppLogLen)
            /\ RPCCreatePost(i, post_id, author, text, text, delivered)
    \/ \E i \in Clients, post_id \in PostIds, email \in Emails, text \in Texts :
         \E delivered \in SUBSET Peers(Node(i)) :
            /\ LogBelow(i, MaxAppLogLen)
            /\ RPCCommentPost(i, post_id, email, text, delivered)

SpecApp == Init /\ [][NextApp]_vars
\* the tables after the entries 1..k of the log l were applied on top of the tables
\* d by apply_committed_entries; an entry whose apply raises ends its handler with
\* lastApplied advanced, and the next handler goes on behind it
RECURSIVE replay(_, _, _)
replay(d, l, k) ==
    IF k = 0 THEN d ELSE apply_blog_operation(replay(d, l, k - 1), l[k]).db

\* =========================================================================
\* The blog RPCs of a node that restarts
\* =========================================================================
MaxBlogTerm == 2
MaxBlogLogLen == 4
\* the subscriber, and the request.info of RPCLikePost and RPCUnlikePost: a
\* well-formed one, one field short, one field too many
Readers == {"a"}
LikeInfos == {<<"p1", "a">>, <<"p1">>, <<"p1", "a", "a">>}
Passwords == {"password", "pw"}
\* len(password) >= 8
LongPasswords == {"password"}

\* Server.RPCLikePost on node i with request.info = info (lines 923-944); a
\* request of more than two fields raises at the unpacking
like_post(ns, i, info, delivered) ==
    IF ns[i].role # "leader" \/ Len(info) < 2 THEN rpc_failure(ns, i)
    ELSE IF Len(info) > 2 THEN [ns EXCEPT ![i].reply = Raising]
    ELSE IF info[1] \notin DOMAIN ns[i].db.posts \/ info[2] \notin ns[i].db.users
    THEN rpc_failure(ns, i)
    ELSE IF InSeq(info[2], ns[i].db.posts[info[1]].likes) THEN rpc_failure(ns, i)
    ELSE replicated_plain([ns EXCEPT ![i] = replicate_command(@, "LIKE_POST", info)],
                          i, delivered)

\* Server.RPCUnlikePost on node i (lines 947-969)
unlike_post(ns, i, info, delivered) ==
    IF ns[i].role # "leader" \/ Len(info) < 2 THEN rpc_failure(ns, i)
    ELSE IF Len(info) > 2 THEN [ns EXCEPT ![i].reply = Raising]
    ELSE IF info[1] \notin DOMAIN ns[i].db.posts \/ info[2] \notin ns[i].db.users
    THEN rpc_failure(ns, i)
    ELSE IF ~InSeq(info[2], ns[i].db.posts[info[1]].likes) THEN rpc_failure(ns, i)
    ELSE replicated_plain([ns EXCEPT ![i] = replicate_command(@, "UNLIKE_POST", info)],
                          i, delivered)

\* Server.RPCDeletePost on node i (lines 971-989)
delete_post(ns, i, info, delivered) ==
    IF ns[i].role # "leader" \/ Len(info) < 2 THEN rpc_failure(ns, i)
    ELSE IF Len(info) > 2 THEN [ns EXCEPT ![i].reply = Raising]
    ELSE IF info[1] \notin DOMAIN ns[i].db.posts THEN rpc_failure(ns, i)
    ELSE IF info[2] # ns[i].db.posts[info[1]].author THEN rpc_failure(ns, i)
    ELSE replicated_plain([ns EXCEPT ![i] = replicate_command(@, "DELETE_POST", info)],
                          i, delivered)

\* Server.RPCDeleteAccount on node i (lines 991-1007): the username is info[0]
delete_account(ns, i, info, delivered) ==
    IF ns[i].role # "leader" \/ Len(info) < 1 THEN rpc_failure(ns, i)
    ELSE IF info[1] \notin ns[i].db.users THEN rpc_failure(ns, i)
    ELSE replicated_plain(
             [ns EXCEPT ![i] = replicate_command(@, "DELETE_ACCOUNT", <<info[1]>>)],
             i, delivered)

\* Server.RPCCreateAccount on node i (lines 819-848), the email being valid
create_account(ns, i, info, delivered) ==
    IF ns[i].role # "leader" \/ Len(info) # 3 THEN rpc_failure(ns, i)
    ELSE IF info[3] \notin LongPasswords THEN rpc_failure(ns, i)
    ELSE IF info[2] \in DOMAIN ns[i].db.writers THEN rpc_failure(ns, i)
    ELSE replicated([ns EXCEPT ![i] = replicate_command(@, "CREATE_ACCOUNT", info)],
                    i, delivered)

\* the client calls of these handlers on node i
RPCLikePost(i, info, delivered) ==
    /\ Install(like_post(Cluster, i, info, delivered))
    /\ UNCHANGED <<restarts, thread>>

RPCUnlikePost(i, info, delivered) ==
    /\ Install(unlike_post(Cluster, i, info, delivered))
    /\ UNCHANGED <<restarts, thread>>

RPCDeletePost(i, post_id, author, delivered) ==
    /\ Install(delete_post(Cluster, i, <<post_id, author>>, delivered))
    /\ UNCHANGED <<restarts, thread>>

RPCDeleteAccount(i, username, delivered) ==
    /\ Install(delete_account(Cluster, i, <<username>>, delivered))
    /\ UNCHANGED <<restarts, thread>>

RPCCreateAccount(i, name, email, password, delivered) ==
    /\ Install(create_account(Cluster, i, <<name, email, password>>, delivered))
    /\ UNCHANGED <<restarts, thread>>

\* the calls reach every peer or none
Deliveries(i) == {{}, Peers(Node(i))}

NextBlog ==
    \/ \E i \in Clients : \E up \in Deliveries(i) :
            TermBelow(i, MaxBlogTerm) /\ ElectionTimeout(i, up)
    \/ \E i \in Clients : Restart(i)
    \/ \E i \in Clients : \E up \in Deliveries(i) : HeartbeatTimeout(i, up)
    \/ \E i \in Clients, email \in Readers : \E delivered \in Deliveries(i) :
            LogBelow(i, MaxBlogLogLen) /\ RPCSubscribe(i, email, delivered)
    \/ \E i \in Clients, post_id \in PostIds, author \in Readers, text \in Texts :
         \E delivered \in Deliveries(i) :
            /\ LogBelow(i, MaxBlogLogLen)
            /\ RPCCreatePost(i, post_id, author, text, text, delivered)
    \/ \E i \in Clients, post_id \in PostIds, email \in Readers, text \in Texts :
         \E delivered \in Deliveries(i) :
            /\ LogBelow(i, MaxBlogLogLen)
            /\ RPCCommentPost(i, post_id, email, text, delivered)
    \/ \E i \in Clients, info \in LikeInfos : \E delivered \in Deliveries(i) :
            LogBelow(i, MaxBlogLogLen) /\ RPCLikePost(i, info, delivered)
    \/ \E i \in Clients, info \in LikeInfos : \E delivered \in Deliveries(i) :
            LogBelow(i, MaxBlogLogLen) /\ RPCUnlikePost(i, info, delivered)
    \/ \E i \in Clients, post_id \in PostIds, author \in Readers :
         \E delivered \in Deliveries(i) :
            LogBelow(i, MaxBlogLogLen) /\ RPCDeletePost(i, post_id, author, delivered)
    \/ \E i \in Clients, username \in Readers : \E delivered \in Deliveries(i) :
            LogBelow(i, MaxBlogLogLen) /\ RPCDeleteAccount(i, username, delivered)
    \/ \E i \in Clients, email \in Readers, password \in Passwords :
         \E delivered \in Deliveries(i) :
            /\ LogBelow(i, MaxBlogLogLen)
            /\ RPCCreateAccount(i, email, email, password, delivered)

SpecBlog == Init /\ [][NextBlog]_vars
\* =========================================================================
\* Membership: the cluster of three nodes is told of a peer that is not started
\* =========================================================================
MaxJoinTerm == 2
MaxJoinLogLen == 2
\* the peers start_servers announces: a member and a new peer
Joiners == {3, 4}

\* the configured peers of node i that run
Running(i) == Peers(Node(i)) \cap Nodes

NextJoin ==
    \/ \E i \in Timeouts : \E up \in SUBSET Running(i) :
            TermBelow(i, MaxJoinTerm) /\ ElectionTimeout(i, up)
    \/ \E i \in Nodes : \E up \in SUBSET Running(i) : HeartbeatTimeout(i, up)
    \/ \E i \in Clients, id \in Joiners : \E delivered \in SUBSET Running(i) :
            LogBelow(i, MaxJoinLogLen) /\ RPCAddReplica(i, id, delivered)
    \/ \E i \in Clients, email \in Readers : \E delivered \in SUBSET Running(i) :
            LogBelow(i, MaxJoinLogLen) /\ RPCSubscribe(i, email, delivered)

SpecJoin == Init /\ [][NextJoin]_vars

\* =========================================================================
\* append_entries_to_log as a function: one call on a node that loaded a log
\* =========================================================================
MaxFnTerm == 2
MaxFnLen == 3
\* the entries of a term, and the logs and entry lists made of them
FnEntries == {RaftLogEntry(t, "SUBSCRIBE", <<"a">>) : t \in 1..MaxFnTerm}
FnLogs == UNION {[1..k -> FnEntries] : k \in 0..MaxFnLen}

\* node 1 starts on a raft store that holds a log of FnLogs
InitLog ==
    \E l \in FnLogs :
        /\ currentTerm = [i \in Nodes |-> IF i = 1 THEN MaxFnTerm ELSE 0]
        /\ votedFor = [i \in Nodes |-> NoVote]
        /\ log = [i \in Nodes |-> IF i = 1 THEN l ELSE <<>>]
        /\ commitIndex = [i \in Nodes |-> 0]
        /\ lastApplied = [i \in Nodes |-> 0]
        /\ role = [i \in Nodes |-> "follower"]
        /\ nextIndex = [i \in Nodes |-> [j \in Nodes \ {i} |->
                                            IF i = 1 THEN Len(l) + 1 ELSE 1]]
        /\ matchIndex = [i \in Nodes |-> [j \in Nodes \ {i} |-> 0]]
        /\ replicas = [i \in Nodes |-> Nodes]
        /\ disk = [i \in Nodes |-> IF i = 1 THEN RaftState(MaxFnTerm, NoVote, l)
                                    ELSE RaftState(0, NoVote, <<>>)]
        /\ db = [i \in Nodes |-> EmptyDb]
        /\ store = [i \in Nodes |-> save_data(EmptyDb)]
        /\ electionTimer = [i \in Nodes |-> TRUE]
        /\ heartbeatTimer = [i \in Nodes |-> FALSE]
        /\ restarts = 0
        /\ voted = [i \in Nodes |-> {}]
        /\ trace = [i \in Nodes |-> <<>>]
        /\ unsaved = [i \in Nodes |-> {}]
        /\ everApplied = {}
        /\ thread = NoThread

\* raft_node.append_entries_to_log(prevLogIndex, prevLogTerm, entries) is called
\* on node 1, once; thread keeps the value it returned
AppendCall(prevLogIndex, prevLogTerm, entries) ==
    LET called(r) ==
            /\ Install(1 :> r)
            /\ thread' = [NoThread EXCEPT !.pc = "called", !.results = <<r.reply>>]
            /\ UNCHANGED restarts
    IN  /\ thread.pc = "idle"
        /\ called(append_entries_to_log(Node(1), prevLogIndex, prevLogTerm, entries))

NextLog ==
    \E prevLogIndex \in 0..(MaxFnLen + 1), prevLogTerm \in 0..MaxFnTerm,
       entries \in FnLogs :
        AppendCall(prevLogIndex, prevLogTerm, entries)

SpecLog == InitLog /\ [][NextLog]_vars

\* =========================================================================
\* The properties
\* =========================================================================
\* C1 (election safety): in no reachable state are two distinct nodes both leader
\* with the same currentTerm.  Checked under SpecCrash, where a node restarts.
C1_ElectionSafety ==
    \A i, j \in Nodes :
        (i # j /\ role[i] = "leader" /\ role[j] = "leader")
            => currentTerm[i] # currentTerm[j]

\* C2 (log matching): in every reachable state, when the logs of two nodes hold an
\* entry of the same term at an index i, the two logs are identical (term,
\* operation, params) at every index 1..i.
C2_LogMatching ==
    \A x, y \in Nodes : \A i \in 1..Min(Len(log[x]), Len(log[y])) :
        log[x][i].term = log[y][i].term
            => \A j \in 1..i : log[x][j] = log[y][j]

\* C3 (leader completeness for applied entries): a node that becomes leader holds,
\* at its index, every entry that some node has applied before.
C3_LeaderCompleteness ==
    [][\A i \in Nodes :
          (role[i] # "leader" /\ role'[i] = "leader")
              => \A a \in everApplied :
                    /\ a[1] <= Len(log'[i])
                    /\ log'[i][a[1]] = a[2]]_vars

\* C4: in every reachable state of every node,
\* lastApplied <= commitIndex <= last_log_index().
C4_IndexOrder ==
    \A i \in Nodes :
        /\ lastApplied[i] <= commitIndex[i]
        /\ commitIndex[i] <= last_log_index(log[i])

\* C5 (term monotonicity): on every node currentTerm never decreases across a
\* step, also when the election of the node runs concurrently with its RPC
\* handlers.  Checked under SpecElection.
C5_TermMonotonic ==
    [][\A i \in Nodes : currentTerm'[i] >= currentTerm[i]]_vars

\* C6 (single vote per term): a node votes (RequestVote reply voteGranted=true, or
\* its own vote as candidate) for at most one candidate per term, across
\* crash-restarts too, and votedFor changes from one peer id to another only when
\* currentTerm advances.  Checked under SpecCrash.
C6_SingleVote ==
    /\ [](\A i \in Nodes : \A v, w \in voted[i] : v[1] = w[1] => v[2] = w[2])
    /\ [][\A i \in Nodes :
            (votedFor[i] # NoVote /\ votedFor'[i] # NoVote
                                  /\ votedFor'[i] # votedFor[i])
                => currentTerm'[i] > currentTerm[i]]_vars

\* C7 (apply order): on each node apply_blog_operation is invoked for log indices
\* in strictly increasing order, each index once, and when no handler is running
\* lastApplied equals commitIndex, also when apply_committed_entries is entered
\* concurrently.  Checked under SpecApply.
C7_ApplyOrder ==
    \A i \in Nodes :
        /\ \A a, b \in 1..Len(trace[i]) : a < b => trace[i][a][1] < trace[i][b][1]
        /\ thread.pc = "idle" => lastApplied[i] = commitIndex[i]

\* C8 (state-machine determinism): two nodes that have applied the same entries
\* hold identical application tables; one COMMENT_POST entry is one comment on
\* the leader that served the RPC and on every follower.  Checked under SpecApp.
C8_Determinism ==
    \A i, j \in Nodes : trace[i] = trace[j] => db[i] = db[j]

\* C9: on every running node commitIndex only increases: no step of a node that is
\* not restarted sets commitIndex below its previous value.  Checked under
\* SpecCrash.
C9_CommitMonotonic ==
    [][restarts' = restarts
          => \A i \in Nodes : commitIndex'[i] >= commitIndex[i]]_vars

\* C10 (durability before observability): whenever a node sends a RequestVote
\* reply with voteGranted=true, an AppendEntries reply with success=true, or
\* SUCCESS to the client of a mutating RPC, its raft store holds its currentTerm,
\* its votedFor and its log.
C10_DurableBeforeReply ==
    \A i \in Nodes : unsaved[i] = {}

\* a leader l that a peer f voted for has appended and applied an entry for a
\* client, f has acknowledged entries to it, and the raft stores of both hold
\* their state
C10_Acknowledged ==
    \E l \in Nodes : \E f \in Nodes \ {l} :
        /\ role[l] = "leader"
        /\ <<currentTerm[l], l>> \in voted[f]
        /\ matchIndex[l][f] > 0
        /\ lastApplied[l] > 0
        /\ Len(log[f]) > 0
        /\ disk[l] = RaftState(currentTerm[l], votedFor[l], log[l])
        /\ disk[f] = RaftState(currentTerm[f], votedFor[f], log[f])
        /\ unsaved[l] = {}
        /\ unsaved[f] = {}

\* C11 (crash-reload round trip): when a node is restarted on its raft store, its
\* currentTerm, votedFor and log are the values of the last save before the
\* crash.  Checked under SpecCrash.
C11_ReloadRoundTrip ==
    [][\A i \in Crashes :
          Restart(i) => /\ currentTerm'[i] = disk[i].currentTerm
                        /\ votedFor'[i] = disk[i].votedFor
                        /\ log'[i] = disk[i].log]_vars

\* C12 (replay idempotence): applying a log prefix again, on top of the tables this
\* prefix produced or on top of these tables saved and loaded as a restart does,
\* yields the tables the prefix produced.  Checked under SpecBlog for every prefix
\* of every log.
C12_ReplayIdempotent ==
    \A i \in Nodes : \A k \in 0..Len(log[i]) :
        /\ replay(replay(EmptyDb, log[i], k), log[i], k) = replay(EmptyDb, log[i], k)
        /\ replay(load_data(save_data(replay(EmptyDb, log[i], k))), log[i], k)
              = replay(EmptyDb, log[i], k)

\* C13 (leader-only ingress): on a node whose role is not leader every mutating
\* client RPC, and replicate_command itself, answers FAILURE and changes nothing on
\* any node: no log, term, commitIndex, lastApplied or table.  Checked under
\* SpecBlog for every request of the vocabulary.
C13_LeaderOnly ==
    \A i \in Nodes : role[i] # "leader" =>
        LET Rejected(r) ==
                /\ r[i].reply = Failure
                /\ \A j \in Nodes : [r[j] EXCEPT !.reply = Failed] = Node(j)
        IN  /\ \A op \in {"SUBSCRIBE", "LIKE_POST", "ADD_REPLICA", "REMOVE_REPLICA"},
                  info \in LikeInfos :
                Rejected([Cluster EXCEPT ![i] = replicate_command(@, op, info)])
            /\ \A delivered \in Deliveries(i) :
                /\ \A email \in Emails :
                    /\ Rejected(subscribe(Cluster, i, <<email>>, delivered))
                    /\ Rejected(delete_account(Cluster, i, <<email>>, delivered))
                    /\ \A password \in Passwords :
                          Rejected(create_account(Cluster, i, <<email, email, password>>,
                                                  delivered))
                    /\ \A post_id \in PostIds :
                        /\ Rejected(create_post(Cluster, i, post_id,
                                                <<"t", "t", email>>, delivered))
                        /\ Rejected(comment_post(Cluster, i, <<post_id, email, "t">>,
                                                 delivered))
                        /\ Rejected(delete_post(Cluster, i, <<post_id, email>>,
                                                delivered))
                /\ \A info \in LikeInfos :
                    /\ Rejected(like_post(Cluster, i, info, delivered))
                    /\ Rejected(unlike_post(Cluster, i, info, delivered))

\* node 1 was leader, has a subscriber and a post in its tables, and is no longer
\* leader: the requests that passed its validation before are now refused
C13_FormerLeader ==
    /\ role[1] # "leader"
    /\ "a" \in db[1].users
    /\ "p1" \in DOMAIN db[1].posts
    /\ Len(log[1]) > 0

\* C14 (RequestVote grant rule): for a request whose term is at least the
\* receiver's currentTerm, the vote is granted exactly when votedFor (after a
\* higher term was adopted and votedFor cleared) is none or the candidate, and
\* the candidate's last entry has a higher term than the receiver's, or the same
\* term and an index at least as large; on a grant votedFor is the candidate and
\* the reply carries the receiver's currentTerm.
C14_GrantRule ==
    \A j \in Nodes : \A c \in Nodes \ {j} :
        \A term \in 0..MaxTerm + 1, lastLogIndex \in 0..MaxLogLen, lastLogTerm \in 0..MaxTerm :
            LET Rule(r) ==
                    /\ r.reply.ok <=>
                          /\ \/ term > currentTerm[j]
                             \/ votedFor[j] \in {NoVote, c}
                          /\ \/ lastLogTerm > last_log_term(log[j])
                             \/ /\ lastLogTerm = last_log_term(log[j])
                                /\ lastLogIndex >= Len(log[j])
                    /\ r.reply.ok => /\ r.votedFor = c
                                     /\ r.reply.term = r.currentTerm
                                     /\ r.currentTerm = term
            IN  term >= currentTerm[j] =>
                    Rule(RequestVote(Node(j),
                                     [term |-> term, candidateId |-> c,
                                      lastLogIndex |-> lastLogIndex,
                                      lastLogTerm |-> lastLogTerm], c))

\* a node that holds an entry has granted its vote to another node
C14_VoteGranted ==
    \E j \in Nodes : /\ votedFor[j] \notin {NoVote, j}
                      /\ Len(log[j]) > 0
                      /\ <<currentTerm[j], votedFor[j]>> \in voted[j]

\* C15 (leader startup state): in the step in which a node becomes leader, its
\* nextIndex is last_log_index() + 1 and its matchIndex is 0 for every other
\* configured peer, its role is leader and its heartbeat timer is armed.
C15_LeaderStartup ==
    [][\A i \in Nodes :
          role[i] # "leader" /\ role'[i] = "leader" =>
              /\ heartbeatTimer'[i]
              /\ \A p \in replicas'[i] \ {i} :
                    /\ nextIndex'[i][p] = Len(log'[i]) + 1
                    /\ matchIndex'[i][p] = 0]_vars

\* a node that holds an entry has just become leader in a later term
C15_Reelected ==
    \E i \in Nodes : /\ role[i] = "leader"
                      /\ currentTerm[i] > 1
                      /\ Len(log[i]) > 0
                      /\ \A p \in replicas[i] \ {i} :
                            /\ nextIndex[i][p] = Len(log[i]) + 1
                            /\ matchIndex[i][p] = 0

\* C16 (leader commit-on-append): when replicate_command on a leader returns
\* SUCCESS, exactly one entry (currentTerm, op, params) was appended at the old
\* last index + 1 and is on disk, commitIndex = last_log_index(), lastApplied =
\* commitIndex, and the write is applied: a read of the leader's tables sees the
\* subscriber.  The fan-out comes after, so no follower has acknowledged yet.
C16_CommitOnAppend ==
    \A i \in Nodes : role[i] = "leader" =>
        \A email \in Emails :
            LET Kept(r, e) ==
                    ~Raised(r) =>
                        /\ r.log = Append(log[i], e)
                        /\ r.disk = RaftState(currentTerm[i], votedFor[i], r.log)
                        /\ r.commitIndex = Len(r.log)
                        /\ r.lastApplied = r.commitIndex
                        /\ email \in r.db.users
            IN  Kept(replicate_command(Node(i), "SUBSCRIBE", <<email>>),
                     RaftLogEntry(currentTerm[i], "SUBSCRIBE", <<email>>))

\* C17 (duplicate like): no log holds two LIKE_POST entries for the same
\* (post, user) without an UNLIKE_POST for that pair between them; and on a
\* leader a client RPC that answers FAILURE, an RPCLikePost for a pair already
\* liked among them, leaves the log as it was.
C17_NoDoubleLike ==
    /\ \A i \in Nodes : \A k \in 1..Len(log[i]), m \in 1..Len(log[i]) :
          /\ k < m
          /\ log[i][k].operation = "LIKE_POST"
          /\ log[i][m].operation = "LIKE_POST"
          /\ log[i][k].params = log[i][m].params
          => \E u \in (k + 1)..(m - 1) :
                /\ log[i][u].operation = "UNLIKE_POST"
                /\ log[i][u].params = log[i][k].params
    /\ \A i \in Clients : role[i] = "leader" =>
          LET Refused(r) == r[i].reply = Failure => r[i].log = log[i]
              Liked(info) == /\ info[1] \in DOMAIN db[i].posts
                             /\ InSeq(info[2], db[i].posts[info[1]].likes)
          IN  \A delivered \in Deliveries(i) :
                /\ \A info \in LikeInfos :
                    /\ Refused(like_post(Cluster, i, info, delivered))
                    /\ Refused(unlike_post(Cluster, i, info, delivered))
                    /\ Len(info) = 2 /\ Liked(info) =>
                          like_post(Cluster, i, info, delivered)[i].reply = Failure
                /\ \A email \in Emails :
                    /\ Refused(subscribe(Cluster, i, <<email>>, delivered))
                    /\ Refused(delete_account(Cluster, i, <<email>>, delivered))
                    /\ \A password \in Passwords :
                          Refused(create_account(Cluster, i, <<email, email, password>>,
                                                 delivered))
                    /\ \A post_id \in PostIds :
                        /\ Refused(comment_post(Cluster, i, <<post_id, email, "t">>,
                                                delivered))
                        /\ Refused(delete_post(Cluster, i, <<post_id, email>>,
                                               delivered))

\* C18 (follower commit rule): when a node answers success to an AppendEntries of
\* a leader (the request of the fan-out or the heartbeat ping) whose leaderCommit
\* is above the node's commitIndex, its commitIndex is min(leaderCommit,
\* last_log_index()) and lastApplied = commitIndex at the reply; when leaderCommit
\* is not above, commitIndex and lastApplied are as before.
C18_FollowerCommit ==
    \A i \in Nodes : role[i] = "leader" =>
        \A j \in Nodes \ {i} :
            LET Rule(r, request) ==
                    r.reply.st = "resp" /\ r.reply.ok =>
                        IF request.leaderCommit > commitIndex[j]
                        THEN /\ r.commitIndex = Min(request.leaderCommit, Len(r.log))
                             /\ r.lastApplied = r.commitIndex
                        ELSE /\ r.commitIndex = commitIndex[j]
                             /\ r.lastApplied = lastApplied[j]
                Handled(request) == Rule(AppendEntries(Node(j), request), request)
            IN  /\ Handled(AppendEntriesRequest(Node(i), j))
                /\ Handled(hb_req(Node(i)))

\* C19 (candidate procedure): when the election timer fires on a node that is not
\* leader, the node becomes candidate, currentTerm grows by exactly 1, votedFor is
\* its own id, both are on disk and the election timer is armed again, all before
\* any RequestVote is sent; every RequestVote sent for this election carries that
\* new term; when the timer fires on a leader, role, term, vote, log and disk stay.
C19_CandidateProcedure ==
    /\ [](thread.pc = "join" =>
             \A k \in 1..Len(thread.req) : thread.req[k].term = thread.term)
    /\ [][\A i \in Nodes :
             StartElection(i) =>
                 IF role[i] = "leader"
                 THEN UNCHANGED <<role, currentTerm, votedFor, log, disk>>
                 ELSE /\ role'[i] = "candidate"
                      /\ currentTerm'[i] = currentTerm[i] + 1
                      /\ votedFor'[i] = i
                      /\ disk'[i] = RaftState(currentTerm[i] + 1, i, log[i])
                      /\ electionTimer'[i]
                      /\ thread'.req = <<>>]_vars

\* C20 (heartbeat tick): when the heartbeat timer fires on a node that is not
\* leader, nothing is sent, no node changes and the timer is not armed again; when
\* it fires on a node that is still leader after check_leader_status, the node
\* sends exactly one AppendEntries to every other configured peer p, with the
\* entries of its log from nextIndex[p] to the end, and arms the timer again.
C20_HeartbeatTick ==
    \A i \in Nodes : \A up \in SUBSET (replicas[i] \ {i}) :
        LET Quiet(r) ==
                /\ r[i].sent = <<>>
                /\ ~r[i].heartbeatTimer
                /\ \A j \in Nodes : [r[j] EXCEPT !.heartbeatTimer = heartbeatTimer[j]]
                                         = Node(j)
            Beat(r, checked) ==
                checked[i].role = "leader" =>
                    /\ r[i].heartbeatTimer
                    /\ Len(r[i].sent) = Cardinality(replicas[i] \ {i})
                    /\ \A p \in replicas[i] \ {i} :
                          \E k \in 1..Len(r[i].sent) :
                              /\ r[i].sent[k].to = p
                              /\ r[i].sent[k].entries =
                                    [m \in 1..(Len(log[i]) + 1 - nextIndex[i][p]) |->
                                        log[i][nextIndex[i][p] + m - 1]]
        IN  IF role[i] # "leader"
            THEN Quiet(leader_heartbeat(Cluster, i, up, up))
            ELSE Beat(leader_heartbeat(Cluster, i, up, up),
                      check_leader_status(Cluster, i, up))

\* the heartbeat of a leader that reaches its peers carries to one of them the
\* entries that peer misses
C20_BeatWithEntries ==
    \E i \in Nodes :
        /\ role[i] = "leader"
        /\ heartbeatTimer[i]
        /\ \E k \in 1..Len(leader_heartbeat(Cluster, i, replicas[i] \ {i},
                                             replicas[i] \ {i})[i].sent) :
              leader_heartbeat(Cluster, i, replicas[i] \ {i},
                               replicas[i] \ {i})[i].sent[k].entries # <<>>

C22_CatchUp ==
    LET Same(r) == \A k \in Nodes : [r[k] EXCEPT !.reply = Failed, !.sent = <<>>] = Node(k)
    IN  \A i \in Nodes :
            /\ role[i] = "leader"
            /\ heartbeatTimer[i]
            /\ \A j \in Nodes : heartbeatTimer[j] =>
                  Same(leader_heartbeat(Cluster, j, Peers(Node(j)), Peers(Node(j))))
            => \A f \in Nodes \ {i} : /\ log[f] = log[i]
                                       /\ lastApplied[f] = commitIndex[i]

\* C23 (reconcile never truncates past the provided range): when a node accepts an
\* AppendEntries of a leader (the request of the fan-out or the heartbeat ping) none
\* of whose entries differs in term from the local entry at its index, the local
\* entries above prevLogIndex + len(entries) stay; and when every supplied entry
\* has a local entry of the same term at its index (entries = [] and prevLogIndex
\* = 0 included), the log is left exactly as it was.
C23_NoTruncation ==
    \A i \in Nodes : role[i] = "leader" =>
        \A j \in Nodes \ {i} :
            LET At(request, m) == request.prevLogIndex + m
                Conflict(request) ==
                    \E m \in 1..Len(request.entries) :
                        /\ At(request, m) <= Len(log[j])
                        /\ log[j][At(request, m)].term # request.entries[m].term
                Covered(request) ==
                    \A m \in 1..Len(request.entries) :
                        /\ At(request, m) <= Len(log[j])
                        /\ log[j][At(request, m)].term = request.entries[m].term
                Kept(r, request) ==
                    r.reply.st = "resp" /\ r.reply.ok =>
                        /\ ~Conflict(request) =>
                              \A k \in (At(request, Len(request.entries)) + 1)..Len(log[j]) :
                                  k <= Len(r.log) /\ r.log[k] = log[j][k]
                        /\ Covered(request) => r.log = log[j]
                Handled(request) == Kept(AppendEntries(Node(j), request), request)
            IN  /\ Handled(AppendEntriesRequest(Node(i), j))
                /\ Handled(hb_req(Node(i)))

C25_LeaderByMajority ==
    [][/\ thread.pc \in {"join", "loop"}
       /\ role[thread.node] # "leader"
       /\ role'[thread.node] = "leader"
       => LET i == thread.node
              T == currentTerm'[i]
          IN  /\ role[i] = "candidate"
              /\ currentTerm[i] = T
              /\ Cardinality({j \in Nodes \ {i} : <<T, i>> \in voted'[j]}) + 1
                     >= Majority(Node(i))]_vars

\* C26 (candidate meets the leader of its term): a candidate that handles an
\* AppendEntries whose term equals its currentTerm is follower when it replies.
C26_CandidateYields ==
    \A i \in Nodes : role[i] = "leader" =>
        \A j \in Nodes \ {i} :
            LET Yields(r) == r.reply.st = "resp" => r.role = "follower"
            IN  role[j] = "candidate" /\ currentTerm[j] = currentTerm[i] =>
                    Yields(AppendEntries(Node(j), AppendEntriesRequest(Node(i), j)))

\* C27 (higher term in a request): after a node in any role handles a RequestVote
\* or an AppendEntries whose term is above its currentTerm, its currentTerm is the
\* request's term, its role is follower, its votedFor is none or, when it granted
\* the RequestVote, the candidate, and term and vote are in the raft store when
\* the reply is sent.
C27_HigherTerm ==
    \A j \in Nodes :
        LET Adopted(r, term) ==
                r.reply.st = "resp" =>
                    /\ r.currentTerm = term
                    /\ r.role = "follower"
                    /\ r.disk.currentTerm = term
                    /\ r.disk.votedFor = r.votedFor
            Voted(r, term, c) ==
                /\ Adopted(r, term)
                /\ r.votedFor = IF r.reply.ok THEN c ELSE NoVote
            Appended(r, term) ==
                /\ Adopted(r, term)
                /\ r.reply.st = "resp" => r.votedFor = NoVote
        IN  /\ \A c \in Nodes \ {j} :
                  \A term \in (currentTerm[j] + 1)..(MaxTerm + 1),
                     lastLogIndex \in 0..MaxLogLen, lastLogTerm \in 0..MaxTerm :
                      Voted(RequestVote(Node(j),
                                        [term |-> term, candidateId |-> c,
                                         lastLogIndex |-> lastLogIndex,
                                         lastLogTerm |-> lastLogTerm], c), term, c)
            /\ \A i \in Nodes \ {j} :
                  role[i] = "leader" /\ currentTerm[i] > currentTerm[j] =>
                      /\ Appended(AppendEntries(Node(j), AppendEntriesRequest(Node(i), j)),
                                  currentTerm[i])
                      /\ Appended(AppendEntries(Node(j), hb_req(Node(i))), currentTerm[i])

\* a node that was candidate of an earlier term is follower in a later term with
\* no vote, as its raft store says
C27_SteppedDown ==
    \E j \in Nodes :
        /\ role[j] = "follower"
        /\ votedFor[j] = NoVote
        /\ \E t \in 1..MaxTerm : t < currentTerm[j] /\ <<t, j>> \in voted[j]
        /\ disk[j].currentTerm = currentTerm[j]
        /\ disk[j].votedFor = NoVote

\* C28 (stale-term requests): a RequestVote or an AppendEntries whose term is below
\* the receiver's currentTerm is answered (currentTerm, false) and changes nothing
\* on the receiver: currentTerm, votedFor, role, log, commitIndex, lastApplied and
\* the election timer are as before.
C28_StaleRequest ==
    \A j \in Nodes :
        LET Refusal(r) == r = [Node(j) EXCEPT !.reply = Response(currentTerm[j], FALSE)]
        IN  /\ \A c \in Nodes \ {j} :
                  \A term \in 0..(currentTerm[j] - 1),
                     lastLogIndex \in 0..MaxLogLen, lastLogTerm \in 0..MaxTerm :
                      Refusal(RequestVote(Node(j),
                                          [term |-> term, candidateId |-> c,
                                           lastLogIndex |-> lastLogIndex,
                                           lastLogTerm |-> lastLogTerm], c))
            /\ \A i \in Nodes \ {j} :
                  role[i] = "leader" /\ currentTerm[i] < currentTerm[j] =>
                      /\ Refusal(AppendEntries(Node(j), AppendEntriesRequest(Node(i), j)))
                      /\ Refusal(AppendEntries(Node(j), hb_req(Node(i))))

\* a leader of an earlier term is refused by a node of a later term whose election
\* timer is not armed
C28_StaleLeader ==
    \E i \in Nodes, j \in Nodes :
        /\ role[i] = "leader"
        /\ currentTerm[i] < currentTerm[j]
        /\ ~electionTimer[j]
        /\ AppendEntries(Node(j), AppendEntriesRequest(Node(i), j)).reply
              = Response(currentTerm[j], FALSE)

\* C29 (success-response bookkeeping): after a leader handles the successful
\* Response to a request (prevLogIndex, entries) it sent to follower F,
\* matchIndex[F] = prevLogIndex + len(entries) and nextIndex[F] = matchIndex[F] + 1,
\* also when a second request carrying the same entries was in flight to F and its
\* Response is handled next.
C29_SuccessBookkeeping ==
    \A i \in Nodes : role[i] = "leader" =>
        \A F \in Nodes \ {i} :
            LET Settled(r, req) ==
                    /\ r.matchIndex[F] = req.prevLogIndex + Len(req.entries)
                    /\ r.nextIndex[F] = r.matchIndex[F] + 1
                Succeeded(n, resp) ==
                    resp.st = "resp" /\ resp.ok /\ resp.term <= n.currentTerm
                        /\ n.role = "leader"
                Second(n, req, resp) ==
                    Succeeded(n, resp) =>
                        Settled(handle_append_entries_response(n, resp, F, req), req)
                First(n, req, callee) ==
                    Succeeded(n, callee.reply) =>
                        /\ Settled(handle_append_entries_response(n, callee.reply, F, req),
                                   req)
                        /\ Second(handle_append_entries_response(n, callee.reply, F, req),
                                  req, AppendEntries(callee, req).reply)
                Sent(req) == First(Node(i), req, AppendEntries(Node(F), req))
            IN  Sent(AppendEntriesRequest(Node(i), F))

\* C30 (leader commit advance): after a leader handles a successful AppendEntries
\* Response, its commitIndex is the largest N above the previous commitIndex such
\* that log[N].term = currentTerm and a majority of the cluster (the leader, and
\* every other peer by its matchIndex) has index >= N, and is unchanged when there
\* is no such N: an entry of an earlier term is never committed by counting.
C30_CommitAdvance ==
    \A i \in Nodes : role[i] = "leader" =>
        \A F \in Nodes \ {i} :
            LET Held(r, N) ==
                    1 + Cardinality({p \in DOMAIN r.matchIndex : r.matchIndex[p] >= N})
                Committable(r) ==
                    {N \in (commitIndex[i] + 1)..Len(log[i]) :
                        /\ log[i][N].term = currentTerm[i]
                        /\ Held(r, N) >= (Cardinality(replicas[i]) \div 2) + 1}
                Advanced(r) ==
                    IF Committable(r) = {} THEN r.commitIndex = commitIndex[i]
                    ELSE /\ r.commitIndex \in Committable(r)
                         /\ \A N \in Committable(r) : N <= r.commitIndex
                Succeeded(n, resp) ==
                    resp.st = "resp" /\ resp.ok /\ resp.term <= n.currentTerm
                        /\ n.role = "leader"
                First(n, req, callee) ==
                    Succeeded(n, callee.reply) =>
                        Advanced(handle_append_entries_response(n, callee.reply, F, req))
                Sent(req) == First(Node(i), req, AppendEntries(Node(F), req))
            IN  Sent(AppendEntriesRequest(Node(i), F))

\* C31 (failure-response backtracking): when a leader handles an AppendEntries
\* Response with success = false and a term not above its own, nextIndex[F] goes
\* down by exactly one if it was above 1 and stays 1 otherwise, and nothing else
\* of the leader changes (matchIndex, commitIndex, log, role); nextIndex[F] >= 1
\* in every reachable state.
C31_Backtrack ==
    /\ \A i \in Nodes : \A F \in DOMAIN nextIndex[i] : nextIndex[i][F] >= 1
    /\ \A i \in Nodes : role[i] = "leader" =>
          \A F \in Nodes \ {i} :
              LET Refused(resp) ==
                      resp.st = "resp" /\ ~resp.ok /\ resp.term <= currentTerm[i]
                  Stepped(req, resp) ==
                      Refused(resp) =>
                          handle_append_entries_response(Node(i), resp, F, req)
                              = [Node(i) EXCEPT !.nextIndex[F] =
                                                    IF @ > 1 THEN @ - 1 ELSE @]
                  Sent(req) == Stepped(req, AppendEntries(Node(F), req).reply)
              IN  Sent(AppendEntriesRequest(Node(i), F))

\* a leader whose entries are all of earlier terms has a nextIndex two below the
\* one it started with: two of its requests were refused
C31_SteppedBack ==
    \E i \in Nodes : \E F \in Nodes \ {i} :
        /\ role[i] = "leader"
        /\ \A k \in 1..Len(log[i]) : log[i][k].term < currentTerm[i]
        /\ nextIndex[i][F] = Len(log[i]) - 1
        /\ nextIndex[i][F] >= 1

\* C32 (higher term in a reply): when a leader or candidate receives, on a
\* RequestVote, on an AppendEntries of a fan-out or on the ping of the liveness
\* check, a reply whose term is above its currentTerm, it adopts that term, clears
\* votedFor, writes both to the raft store and is follower.
C32_HigherTermReply ==
    \A i \in Nodes : \A j \in Nodes \ {i} :
        LET Yielded(r, term) ==
                /\ r.currentTerm = term
                /\ r.role = "follower"
                /\ r.votedFor = NoVote
                /\ r.disk.currentTerm = term
                /\ r.disk.votedFor = NoVote
            Above(resp) == resp.st = "resp" /\ resp.term > currentTerm[i]
            Voting(resp) ==
                role[i] = "candidate" /\ Above(resp) =>
                    Yielded(tally(Node(i), currentTerm[i], <<resp>>, 1, 1), resp.term)
            Replicating(req, resp) ==
                role[i] = "leader" /\ Above(resp) =>
                    Yielded(handle_append_entries_response(Node(i), resp, j, req),
                            resp.term)
            Pinging(resp) ==
                role[i] = "leader" /\ Above(resp) =>
                    Yielded(check_leader_status(Cluster, i, {j})[i], resp.term)
        IN  /\ Voting(RequestVote(Node(j), RequestVoteRequest(Node(i)), i).reply)
            /\ Replicating(AppendEntriesRequest(Node(i), j),
                           AppendEntries(Node(j), AppendEntriesRequest(Node(i), j)).reply)
            /\ Pinging(AppendEntries(Node(j), hb_req(Node(i))).reply)

\* C33 (stale results are ignored): when the results of the RequestVote calls of
\* an election are processed on a node that is no longer candidate, they have no
\* effect on its role, nextIndex, matchIndex and commitIndex.
C33_StaleResults ==
    [][/\ Joined \/ NextResult
       /\ role[thread.node] # "candidate"
       => /\ role'[thread.node] = role[thread.node]
          /\ nextIndex'[thread.node] = nextIndex[thread.node]
          /\ matchIndex'[thread.node] = matchIndex[thread.node]
          /\ commitIndex'[thread.node] = commitIndex[thread.node]]_vars

\* C34 (leader liveness check): when the peers that answer the ping of the
\* liveness check with the leader's term, plus the leader itself, are fewer than a
\* majority of the configuration, the node is follower when the check returns,
\* its election timer is armed and the tick sends no fan-out; when they are a
\* majority, the node is still leader when the check returns.  The heartbeat
\* timer of a leader is armed, so that the check comes with the next tick.
C34_LivenessCheck ==
    \A i \in Nodes : role[i] = "leader" =>
        /\ heartbeatTimer[i]
        /\ \A up \in SUBSET Running(i) :
            LET Reached(resp) == resp.st = "resp" /\ resp.term = currentTerm[i]
                reachable ==
                    1 + Cardinality({j \in up :
                            Reached(AppendEntries(Node(j), hb_req(Node(i))).reply)})
                Checked(r, tick) ==
                    IF reachable < (Cardinality(replicas[i]) \div 2) + 1
                    THEN /\ r.role = "follower"
                         /\ r.electionTimer
                         /\ tick.role = "follower"
                         /\ tick.electionTimer
                         /\ tick.sent = <<>>
                         /\ ~tick.heartbeatTimer
                    ELSE r.role = "leader"
            IN  Checked(check_leader_status(Cluster, i, up)[i],
                        leader_heartbeat(Cluster, i, up, up)[i])

\* a node that was leader of its term is follower in that term, its vote still
\* for itself, with its election timer armed and its heartbeat timer spent
C34_SteppedDown ==
    \E i \in Nodes :
        /\ role[i] = "follower"
        /\ votedFor[i] = i
        /\ <<currentTerm[i], i>> \in voted[i]
        /\ electionTimer[i]
        /\ ~heartbeatTimer[i]

\* C35 (malformed entries are skipped): applying a log entry with an unrecognised
\* operation, a wrong number of params or a reference to a missing entity
\* (COMMENT_POST on a post that does not exist, DELETE_POST whose author is not a
\* subscriber, ADD_REPLICA without params) leaves the tables unchanged, raises no
\* error and advances lastApplied past the entry.
C35_MalformedSkipped ==
    \A i \in Nodes :
        LET Arity(op) ==
                CASE op \in {"SUBSCRIBE", "DELETE_ACCOUNT", "ADD_REPLICA"} -> 1
                  [] op \in {"LIKE_POST", "UNLIKE_POST", "DELETE_POST"} -> 2
                  [] op \in {"CREATE_ACCOUNT", "COMMENT_POST"} -> 3
                  [] op = "CREATE_POST" -> 5
                  [] OTHER -> 0
            Malformed(e) ==
                \/ Arity(e.operation) = 0
                \/ Len(e.params) # Arity(e.operation)
                \/ e.operation = "COMMENT_POST" /\ e.params[1] \notin DOMAIN db[i].posts
                \/ e.operation = "DELETE_POST" /\ e.params[2] \notin db[i].users
            Skipped(r, k) ==
                /\ ~Raised(r)
                /\ r.db = db[i]
                /\ r.lastApplied = k
            Next1(k, e) ==
                Malformed(e) =>
                    Skipped(membership(applied([Node(i) EXCEPT !.reply = Failed], k,
                                               apply_blog_operation(db[i], e)), e), k)
        IN  lastApplied[i] < Len(log[i]) =>
                Next1(lastApplied[i] + 1, log[i][lastApplied[i] + 1])

\* C36 (state-machine safety): when some node has applied the entry e at the index
\* k, no node applies another entry at k, and no node holds at an index up to its
\* lastApplied another entry than the one it applied there.
C36_StateMachineSafety ==
    /\ \A a, b \in everApplied : a[1] = b[1] => a[2] = b[2]
    /\ \A i \in Nodes : \A k \in 1..Len(trace[i]) :
          /\ trace[i][k][1] <= lastApplied[i]
          /\ trace[i][k][1] <= Len(log[i])
          /\ \A m \in (k + 1)..Len(trace[i]) : trace[i][m][1] # trace[i][k][1]
          => log[i][trace[i][k][1]] = trace[i][k][2]

\* C37 (only leaders replicate): every AppendEntries request of a fan-out is built
\* and sent while its sender is leader, with the sender's currentTerm; a node that
\* was deposed between the role test of replicate_command and its fan-out sends
\* nothing.
C37_OnlyLeadersReplicate ==
    [][\A delivered \in SUBSET (Nodes \ {thread.node}) :
          FinishSubscribe(delivered) =>
              LET Requests(r) ==
                      /\ role[thread.node] # "leader" => r.sent = <<>>
                      /\ \A k \in 1..Len(r.sent) :
                            r.sent[k].term = currentTerm[thread.node]
              IN  Requests(send_append_entries_to_all(
                               [Cluster EXCEPT ![thread.node] = saved_data(@)],
                               thread.node, delivered)[thread.node])]_vars

\* C38 (matchIndex soundness): whenever L is leader of term T and F has currentTerm
\* T, matchIndex[F] on L is at most the length of the longest common prefix of the
\* logs of L and F, and nextIndex[F] <= last_log_index(L) + 1.
C38_MatchIndexSound ==
    \A L \in Nodes : \A F \in Nodes \ {L} :
        role[L] = "leader" /\ currentTerm[F] = currentTerm[L] =>
            /\ matchIndex[L][F] <= Len(log[F])
            /\ \A k \in 1..matchIndex[L][F] :
                  k <= Len(log[L]) /\ log[L][k] = log[F][k]
            /\ nextIndex[L][F] <= Len(log[L]) + 1

\* C39 (leader append-only): while a node is leader its log changes only by
\* appending entries at its end; no entry of a leader's log is removed or
\* replaced, in particular not by an AppendEntries that the node handles while it
\* is leader.
C39_LeaderAppendOnly ==
    [][\A i \in Nodes :
          role[i] = "leader" /\ role'[i] = "leader" =>
              /\ Len(log'[i]) >= Len(log[i])
              /\ \A k \in 1..Len(log[i]) : log'[i][k] = log[i][k]]_vars

\* C40 (the election timer is never lost): in every reachable state, a node that
\* is follower or candidate and is not in the middle of become_candidate has its
\* election timer armed, also when its timer fired while it was leader and it
\* was deposed afterwards by a higher term in an AppendEntries response or in a
\* RequestVote that it did not grant.
C40_ElectionTimerArmed ==
    \A i \in Nodes :
        role[i] \in {"follower", "candidate"} /\ thread.node # i => electionTimer[i]
====
